---------------------------- MODULE Spec2Model ----------------------------
(***************************************************************************)
(* Model of the Textures backend (TreppLabs/textures, backend/src).        *)
(*                                                                         *)
(* The persistent store is the relational database of models/schemas.py    *)
(* (tables themes, generations, images, prompt_history) under the default  *)
(* engine of models/database.py: SQLite, opened without                    *)
(* "PRAGMA foreign_keys=ON", so declared foreign keys are not enforced,    *)
(* and an INTEGER PRIMARY KEY is assigned as max(id)+1.                    *)
(*                                                                         *)
(* The operations are the request handlers of api/images.py,               *)
(* api/themes.py and api/generate.py and the methods of                    *)
(* core/theme_manager.py, each one action.  The handlers are coroutines    *)
(* on one event loop: a handler runs without interruption up to an await.  *)
(* Only generate_textures awaits (asyncio.gather over the thread pool),    *)
(* so it is three steps: the part before the await, the completion of      *)
(* each worker-thread call, and the part after the await.                  *)
(*                                                                         *)
(* Store faults (an exception raised by the database) are modelled where   *)
(* the specification speaks of them: in delete_theme and in the image      *)
(* inserts of generate_textures.                                           *)
(*                                                                         *)
(* Text is modelled as a sequence of tokens; a token is either plain text  *)
(* or a tagged keyword "##w".                                              *)
(***************************************************************************)
EXTENDS Integers, Sequences, FiniteSets, TLC

\* ------------------------------------------------------------------------
\* Bounds of the model
\* ------------------------------------------------------------------------
MaxThemeId == 2
MaxGenerationId == 2
MaxImageId == 2
MaxHistoryId == 1
MaxVariationsModel == 2

\* ------------------------------------------------------------------------
\* Values
\* ------------------------------------------------------------------------
\* Python None for an integer column or argument (row ids start at 1).
NoneVal == 0
\* Python None for a string column or argument.
NoneStr == "<None>"
\* A timestamp written by the database or by datetime.utcnow().
Stamp == "<timestamp>"

Plain(s) == [tagged |-> FALSE, w |-> s]
Tag(k) == [tagged |-> TRUE, w |-> k]
\* Python None where prompt text is expected.
NonePrompt == <<[tagged |-> FALSE, w |-> "<None>"]>>
\* The empty string "".
EmptyPrompt == <<>>

SetMax(S) == CHOOSE m \in S : \A x \in S : x <= m
\* The id SQLite gives the next row of a table: max(rowid)+1.
NextId(table) == IF DOMAIN table = {} THEN 1 ELSE SetMax(DOMAIN table) + 1
Remove(f, S) == [x \in (DOMAIN f) \ S |-> f[x]]
Insert(f, k, v) == [x \in (DOMAIN f) \cup {k} |-> IF x = k THEN v ELSE f[x]]
SeqToSet(s) == {s[i] : i \in 1..Len(s)}
IndexOf(s, e) == CHOOSE i \in 1..Len(s) : s[i] = e

\* ------------------------------------------------------------------------
\* core/constants.py
\* ------------------------------------------------------------------------
HIGH_RATING_THRESHOLD == 4

\* ------------------------------------------------------------------------
\* State
\* ------------------------------------------------------------------------
VARIABLES
    themes,          \* table themes: id -> row
    generations,     \* table generations: id -> row
    images,          \* table images: id -> row
    prompt_history,  \* table prompt_history: id -> row
    gen,             \* the generate_textures request in flight, if any
    response         \* what the last handler or method returned

vars == <<themes, generations, images, prompt_history, gen, response>>
store == <<themes, generations, images, prompt_history>>

\* The four tables as one value (a database snapshot).
Db == [themes |-> themes, generations |-> generations,
       images |-> images, prompt_history |-> prompt_history]

\* op: the handler or method that ran last; args: what it was called with;
\* code: the HTTP status (0 for a method of the core); status, error, data:
\* what it returned.
Response(op, args, code, status, error, data) ==
    [op |-> op, args |-> args, code |-> code, status |-> status,
     error |-> error, data |-> data]

\* No generate_textures request has been made yet.
NoGen == [pc |-> "idle", request |-> <<>>, generation_id |-> NoneVal,
          base_prompt |-> <<>>, prompt_variations |-> <<>>, tasks |-> <<>>,
          results |-> <<>>, completed |-> <<>>]

Init ==
    /\ themes = <<>>
    /\ generations = <<>>
    /\ images = <<>>
    /\ prompt_history = <<>>
    /\ gen = NoGen
    /\ response = Response("start", <<>>, 0, NoneStr, NoneStr, <<>>)

\* ------------------------------------------------------------------------
\* core/theme_manager.py
\* ------------------------------------------------------------------------
ThemeRow(name, description, base_prompt, parent_theme_id) ==
    [name |-> name, description |-> description, base_prompt |-> base_prompt,
     parent_theme_id |-> parent_theme_id, created_at |-> Stamp,
     updated_at |-> NoneStr]

\* The dictionary the methods return for a theme row.
ThemeDict(id, row) ==
    [id |-> id, name |-> row.name, description |-> row.description,
     base_prompt |-> row.base_prompt, parent_theme_id |-> row.parent_theme_id]

\* ThemeManager.create_theme: the row is inserted as given; parent_theme_id
\* is not looked up, and SQLite does not check the foreign key.
create_theme(name, base_prompt, description, parent_theme_id) ==
    /\ NextId(themes) <= MaxThemeId
    /\ LET id == NextId(themes)
           row == ThemeRow(name, description, base_prompt, parent_theme_id)
       IN /\ themes' = Insert(themes, id, row)
          /\ response' = Response("create_theme",
                                  [name |-> name, base_prompt |-> base_prompt,
                                   description |-> description,
                                   parent_theme_id |-> parent_theme_id],
                                  0, "created", NoneStr,
                                  ThemeDict(id, row))
    /\ UNCHANGED <<generations, images, prompt_history, gen>>

\* "if new_base_prompt is None": the empty prompt counts as a prompt.
IsNonePrompt(p) == p = NonePrompt

\* "if not new_base_prompt": None and "" are both falsy.
NotPrompt(p) == p = NonePrompt \/ p = EmptyPrompt
NotStr(s) == s = NoneStr \/ s = ""

BranchedFrom(name) == "Branched from " \o name

BranchArgs(parent_theme_id, new_name, new_base_prompt, description) ==
    [parent_theme_id |-> parent_theme_id, new_name |-> new_name,
     new_base_prompt |-> new_base_prompt, description |-> description]

\* ThemeManager.branch_theme
branch_theme(parent_theme_id, new_name, new_base_prompt, description) ==
    /\ parent_theme_id \in DOMAIN themes => NextId(themes) <= MaxThemeId
    /\ IF parent_theme_id \notin DOMAIN themes
       THEN /\ response' = Response("branch_theme",
                                    BranchArgs(parent_theme_id, new_name,
                                               new_base_prompt, description),
                                    0, NoneStr, "Parent theme not found", <<>>)
            /\ UNCHANGED themes
       ELSE LET parent_theme == themes[parent_theme_id]
                prompt == IF NotPrompt(new_base_prompt)
                          THEN parent_theme.base_prompt
                          ELSE new_base_prompt
                descr == IF NotStr(description)
                         THEN BranchedFrom(parent_theme.name)
                         ELSE description
                id == NextId(themes)
                row == ThemeRow(new_name, descr, prompt, parent_theme_id)
            IN /\ themes' = Insert(themes, id, row)
               /\ response' = Response("branch_theme",
                                       BranchArgs(parent_theme_id, new_name,
                                                  new_base_prompt, description),
                                       0, "branched", NoneStr,
                                       ThemeDict(id, row))
    /\ UNCHANGED <<generations, images, prompt_history, gen>>

UpdateArgs(theme_id, name, base_prompt, description) ==
    [theme_id |-> theme_id, name |-> name, base_prompt |-> base_prompt,
     description |-> description]

\* An update that takes a field only when the argument is truthy ("if name:"),
\* so that an empty string is not applied.
update_theme_truthy(theme_id, name, base_prompt, description) ==
    /\ IF theme_id \notin DOMAIN themes
       THEN /\ response' = Response("update_theme",
                                    UpdateArgs(theme_id, name, base_prompt, description),
                                    0, NoneStr, "Theme not found", <<>>)
            /\ UNCHANGED themes
       ELSE LET theme == themes[theme_id]
                row == [theme EXCEPT
                          !.name = IF ~NotStr(name) THEN name ELSE @,
                          !.base_prompt = IF ~NotPrompt(base_prompt)
                                          THEN base_prompt ELSE @,
                          !.description = IF ~NotStr(description)
                                          THEN description ELSE @,
                          !.updated_at = Stamp]
            IN /\ themes' = [themes EXCEPT ![theme_id] = row]
               /\ response' = Response("update_theme",
                                       UpdateArgs(theme_id, name, base_prompt, description),
                                       0, "updated", NoneStr,
                                       ThemeDict(theme_id, row))
    /\ UNCHANGED <<generations, images, prompt_history, gen>>

\* ThemeManager.update_theme
update_theme(theme_id, name, base_prompt, description) ==
    /\ IF theme_id \notin DOMAIN themes
       THEN /\ response' = Response("update_theme",
                                    UpdateArgs(theme_id, name, base_prompt, description),
                                    0, NoneStr, "Theme not found", <<>>)
            /\ UNCHANGED themes
       ELSE LET theme == themes[theme_id]
                row == [theme EXCEPT
                          !.name = IF name # NoneStr THEN name ELSE @,
                          !.base_prompt = IF base_prompt # NonePrompt
                                          THEN base_prompt ELSE @,
                          !.description = IF description # NoneStr
                                          THEN description ELSE @,
                          !.updated_at = Stamp]
            IN /\ themes' = [themes EXCEPT ![theme_id] = row]
               /\ response' = Response("update_theme",
                                       UpdateArgs(theme_id, name, base_prompt, description),
                                       0, "updated", NoneStr,
                                       ThemeDict(theme_id, row))
    /\ UNCHANGED <<generations, images, prompt_history, gen>>

\* The ancestor walk of get_theme_lineage:
\*   while current_theme.parent_theme_id: parent = query...; if parent: append,
\*   current_theme = parent; else: break
\* The walk has no visited set.  fuel counts the iterations still allowed
\* before the walk is known to be in a cycle (more iterations than themes).
RECURSIVE AncestorWalk(_, _, _, _)
AncestorWalk(tbl, current, ancestors, fuel) ==
    IF tbl[current].parent_theme_id = NoneVal THEN [ancestors |-> ancestors, ends |-> TRUE]
    ELSE IF tbl[current].parent_theme_id \notin DOMAIN tbl
         THEN [ancestors |-> ancestors, ends |-> TRUE]
         ELSE IF fuel = 0 THEN [ancestors |-> ancestors, ends |-> FALSE]
              ELSE AncestorWalk(tbl, tbl[current].parent_theme_id,
                                Append(ancestors, tbl[current].parent_theme_id),
                                fuel - 1)

Descendants(tbl, theme_id) == {c \in DOMAIN tbl : tbl[c].parent_theme_id = theme_id}

\* ThemeManager.get_theme_lineage
get_theme_lineage(theme_id) ==
    /\ IF theme_id \notin DOMAIN themes
       THEN response' = Response("get_theme_lineage", [theme_id |-> theme_id], 0, NoneStr,
                                 "Theme not found", <<>>)
       ELSE LET walk == AncestorWalk(themes, theme_id, <<>>, Cardinality(DOMAIN themes))
            IN response' =
                 IF walk.ends
                 THEN Response("get_theme_lineage", [theme_id |-> theme_id], 0, "ok", NoneStr,
                               [current_theme |-> theme_id,
                                ancestors |-> walk.ancestors,
                                descendants |-> Descendants(themes, theme_id),
                                lineage_depth |-> Len(walk.ancestors)])
                 ELSE Response("get_theme_lineage", [theme_id |-> theme_id], 0, "diverges", NoneStr, <<>>)
    /\ UNCHANGED <<store, gen>>

\* ------------------------------------------------------------------------
\* api/themes.py: delete_theme
\* ------------------------------------------------------------------------
GenerationIdsOf(db, theme_id) ==
    {g \in DOMAIN db.generations : db.generations[g].theme_id = theme_id}

\* db.query(Image).filter(Image.generation_id.in_(generation_ids)).delete()
DeleteImagesOf(db, generation_ids) ==
    [db EXCEPT !.images =
        Remove(@, {i \in DOMAIN @ : @[i].generation_id \in generation_ids})]

\* db.query(PromptHistory).filter(PromptHistory.theme_id == theme_id).delete()
DeletePromptHistoryOf(db, theme_id) ==
    [db EXCEPT !.prompt_history =
        Remove(@, {h \in DOMAIN @ : @[h].theme_id = theme_id})]

\* db.query(Generation).filter(Generation.theme_id == theme_id).delete()
DeleteGenerationsOf(db, theme_id) ==
    [db EXCEPT !.generations = Remove(@, GenerationIdsOf(db, theme_id))]

\* db.delete(theme), flushed by db.commit().  Theme.child_themes is a
\* one-to-many relationship without delete cascade: the unit of work loads
\* the children of the deleted row and sets their parent_theme_id to NULL;
\* that UPDATE also writes updated_at (onupdate=func.now()).
DeleteThemeRow(db, theme_id) ==
    [db EXCEPT !.themes =
        [t \in (DOMAIN @) \ {theme_id} |->
            IF @[t].parent_theme_id = theme_id
            THEN [@[t] EXCEPT !.parent_theme_id = NoneVal, !.updated_at = Stamp]
            ELSE @[t]]]

\* The work of the transaction of delete_theme after its first n statements.
RECURSIVE DeleteThemeWork(_, _, _)
DeleteThemeWork(db, theme_id, n) ==
    IF n = 0 THEN db
    ELSE LET before == DeleteThemeWork(db, theme_id, n - 1)
         IN CASE n = 1 -> DeleteImagesOf(before, GenerationIdsOf(db, theme_id))
              [] n = 2 -> DeletePromptHistoryOf(before, theme_id)
              [] n = 3 -> DeleteGenerationsOf(before, theme_id)
              [] OTHER -> DeleteThemeRow(before, theme_id)

\* A rollback that keeps what the transaction has done so far.
RollbackKeepsPending(committed, pending) == pending

\* db.rollback(): the store is what was last committed.
Rollback(committed, pending) == committed

\* delete_theme; fault = 0: no statement raises; fault = k in 1..4: the
\* k-th statement raises (4 is the flush and commit), "except Exception"
\* rolls the session back.
delete_theme(theme_id, fault) ==
    /\ IF theme_id \notin DOMAIN themes
       THEN /\ response' = Response("delete_theme", [theme_id |-> theme_id],
                                    404, NoneStr, "Theme not found", <<>>)
            /\ UNCHANGED store
       ELSE LET done == IF fault = 0 THEN 4 ELSE fault - 1
                pending == DeleteThemeWork(Db, theme_id, done)
                final == IF fault = 0 THEN pending ELSE Rollback(Db, pending)
            IN /\ themes' = final.themes
               /\ generations' = final.generations
               /\ images' = final.images
               /\ prompt_history' = final.prompt_history
               /\ response' =
                    IF fault = 0
                    THEN Response("delete_theme", [theme_id |-> theme_id],
                           200, "Theme deleted successfully", NoneStr,
                           [theme_id |-> theme_id,
                            generations_deleted |->
                               Cardinality(GenerationIdsOf(Db, theme_id)),
                            images_deleted |->
                               Cardinality(DOMAIN images) - Cardinality(DOMAIN final.images),
                            prompt_history_deleted |->
                               Cardinality(DOMAIN prompt_history)
                                 - Cardinality(DOMAIN final.prompt_history)])
                    ELSE Response("delete_theme", [theme_id |-> theme_id],
                           500, NoneStr, "Failed to delete theme", <<>>)
    /\ UNCHANGED gen

\* A row of prompt_history.  No handler of the repository writes the table
\* (delete_theme only deletes from it); rows come from outside the handlers.
insert_prompt_history(theme_id) ==
    /\ theme_id \in DOMAIN themes
    /\ NextId(prompt_history) <= MaxHistoryId
    /\ prompt_history' = Insert(prompt_history, NextId(prompt_history),
                                [theme_id |-> theme_id, generation_id |-> NoneVal])
    /\ response' = Response("insert_prompt_history", [theme_id |-> theme_id],
                            0, NoneStr, NoneStr, <<>>)
    /\ UNCHANGED <<themes, generations, images, gen>>

\* ------------------------------------------------------------------------
\* api/images.py
\* ------------------------------------------------------------------------
\* Without the upper bound of the range check.
ValidRatingNoUpper(rating) == 1 <= rating

\* "1 <= rating_data.rating <= 5"
ValidRating(rating) == 1 <= rating /\ rating <= 5

\* A rating, once set, is kept: only an unrated image takes the new value.
rate_image_first_wins(image_id, rating) ==
    /\ IF ~ValidRating(rating)
       THEN /\ response' = Response("rate_image",
                                    [image_id |-> image_id, rating |-> rating],
                                    400, NoneStr, "Rating must be between 1 and 5",
                                    <<>>)
            /\ UNCHANGED images
       ELSE IF image_id \notin DOMAIN images
       THEN /\ response' = Response("rate_image",
                                    [image_id |-> image_id, rating |-> rating],
                                    404, NoneStr, "Image not found", <<>>)
            /\ UNCHANGED images
       ELSE /\ images' = [images EXCEPT ![image_id].rating =
                                          IF @ = NoneVal THEN rating ELSE @]
            /\ response' = Response("rate_image",
                                    [image_id |-> image_id, rating |-> rating],
                                    200, "Rating updated successfully", NoneStr,
                                    [image_id |-> image_id, rating |-> rating])
    /\ UNCHANGED <<themes, generations, prompt_history, gen>>

\* rate_image: the rating is validated before the image is looked up.
rate_image(image_id, rating) ==
    /\ IF ~ValidRating(rating)
       THEN /\ response' = Response("rate_image",
                                    [image_id |-> image_id, rating |-> rating],
                                    400, NoneStr, "Rating must be between 1 and 5",
                                    <<>>)
            /\ UNCHANGED images
       ELSE IF image_id \notin DOMAIN images
       THEN /\ response' = Response("rate_image",
                                    [image_id |-> image_id, rating |-> rating],
                                    404, NoneStr, "Image not found", <<>>)
            /\ UNCHANGED images
       ELSE /\ images' = [images EXCEPT ![image_id].rating = rating]
            /\ response' = Response("rate_image",
                                    [image_id |-> image_id, rating |-> rating],
                                    200, "Rating updated successfully", NoneStr,
                                    [image_id |-> image_id, rating |-> rating])
    /\ UNCHANGED <<themes, generations, prompt_history, gen>>

\* delete_image
delete_image(image_id) ==
    /\ IF image_id \notin DOMAIN images
       THEN /\ response' = Response("delete_image", [image_id |-> image_id],
                                    404, NoneStr, "Image not found", <<>>)
            /\ UNCHANGED images
       ELSE /\ images' = Remove(images, {image_id})
            /\ response' = Response("delete_image", [image_id |-> image_id],
                                    200, "Image deleted successfully", NoneStr,
                                    [image_id |-> image_id])
    /\ UNCHANGED <<themes, generations, prompt_history, gen>>

\* ------------------------------------------------------------------------
\* core/keyword_extractor.py and core/prompt_engine.py
\* ------------------------------------------------------------------------
\* KeywordExtractor.extract_keywords: re.findall(r'##(\w+)', prompt), on
\* tokens: the words of the tagged tokens, in order, duplicates kept.
RECURSIVE extract_keywords(_)
extract_keywords(prompt) ==
    IF prompt = <<>> THEN <<>>
    ELSE IF Head(prompt).tagged
         THEN <<Head(prompt).w>> \o extract_keywords(Tail(prompt))
         ELSE extract_keywords(Tail(prompt))

\* PromptEngine.keyword_categories, in declaration order.
keyword_categories == <<
    [category |-> "structural",
     keywords |-> <<"grid", "radial", "fractal", "voronoi", "maze", "tessellated">>],
    [category |-> "organic",
     keywords |-> <<"cellular", "flowing", "growth", "branching", "veins", "natural">>],
    [category |-> "textural",
     keywords |-> <<"rough", "smooth", "grainy", "sharp", "soft", "coarse">>],
    [category |-> "map_like",
     keywords |-> <<"topographic", "contour", "terrain", "elevation", "isoline">>],
    [category |-> "geometric",
     keywords |-> <<"angular", "curved", "symmetrical", "tessellated", "polygonal">>] >>

variation_strategies == <<"keyword_substitution", "descriptor_addition",
                          "emphasis_shifting", "keyword_combination",
                          "parameter_tweaking">>

\* PromptEngine._find_keyword_category: the first category listing the
\* keyword, 0 (None) when there is none; the result indexes keyword_categories.
_find_keyword_category(keyword) ==
    LET hits == {c \in 1..Len(keyword_categories) :
                    keyword \in SeqToSet(keyword_categories[c].keywords)}
    IN IF hits = {} THEN NoneVal ELSE CHOOSE c \in hits : \A d \in hits : c <= d

\* The dictionary {} passed for "patterns", read through .get(key, default).
EmptyPatterns == [successful_keywords |-> <<>>, high_rated_count |-> 0,
                  total_count |-> 0]

\* The selection that never looks at the patterns.
_select_variation_strategy_random(index, patterns, choice) == choice

\* PromptEngine._select_variation_strategy.  choice: what
\* random.choice(self.variation_strategies) returns when it is called.
_select_variation_strategy(index, patterns, choice) ==
    IF patterns.high_rated_count > 0
    THEN IF index % 3 = 0 THEN "keyword_combination"
         ELSE IF index % 3 = 1 THEN "keyword_substitution"
         ELSE choice
    ELSE choice

Variation(prompt, strategy, changes) ==
    [prompt |-> prompt, strategy |-> strategy, changes |-> changes]

\* The word begins with the letters of old.
StartsWith(word, old) ==
    Len(word) >= Len(old) /\ SubSeq(word, 1, Len(old)) = old

\* str.replace("##old", "##new") on tokens.  The text "##old" occurs exactly
\* where a tagged token begins with old (a plain token holds no "##" that
\* a word follows), whatever letters follow it in the token: the
\* replacement keeps those letters.
ReplaceKeyword(prompt, old, new) ==
    [i \in 1..Len(prompt) |->
        IF prompt[i].tagged /\ StartsWith(prompt[i].w, old)
        THEN Tag(new \o SubSeq(prompt[i].w, Len(old) + 1, Len(prompt[i].w)))
        ELSE prompt[i]]

\* The loop of _keyword_substitution over keywords[:2], from the k-th keyword
\* on: every outcome the random replacements allow.
RECURSIVE SubstitutionLoop(_, _, _, _)
SubstitutionLoop(new_prompt, changes, keywords, k) ==
    IF k > Len(keywords) \/ k > 2
    THEN {[prompt |-> new_prompt, changes |-> changes]}
    ELSE LET keyword == keywords[k]
             category == _find_keyword_category(keyword)
             alternatives ==
                 IF category = NoneVal THEN {}
                 ELSE SeqToSet(keyword_categories[category].keywords) \ {keyword}
         IN IF category # NoneVal
               /\ Len(keyword_categories[category].keywords) > 1
               /\ alternatives # {}
            THEN UNION { SubstitutionLoop(
                            ReplaceKeyword(new_prompt, keyword, replacement),
                            Append(changes, <<Tag(keyword), Plain(" -> "),
                                              Tag(replacement)>>),
                            keywords, k + 1) : replacement \in alternatives }
            ELSE SubstitutionLoop(new_prompt, changes, keywords, k + 1)

\* PromptEngine._keyword_substitution
_keyword_substitution(prompt, keywords, index) ==
    IF keywords = <<>>
    THEN {Variation(prompt, "keyword_substitution", <<>>)}
    ELSE {Variation(r.prompt, "keyword_substitution", r.changes) :
             r \in SubstitutionLoop(prompt, <<>>, keywords, 1)}

descriptors == <<"with flowing lines", "with subtle texture", "with organic growth",
                 "with geometric precision", "with natural randomness",
                 "with structured chaos">>

\* PromptEngine._descriptor_addition
_descriptor_addition(prompt, index) ==
    LET descriptor == descriptors[(index % Len(descriptors)) + 1]
    IN Variation(Append(prompt, Plain(", " \o descriptor)), "descriptor_addition",
                 <<Plain("Added: " \o descriptor)>>)

emphasis_modifiers == <<"bold", "subtle", "delicate", "strong", "gentle", "dramatic">>

\* PromptEngine._emphasis_shifting
_emphasis_shifting(prompt, index) ==
    LET modifier == emphasis_modifiers[(index % Len(emphasis_modifiers)) + 1]
    IN Variation(<<Plain(modifier \o " ")>> \o prompt, "emphasis_shifting",
                 <<Plain("Added emphasis: " \o modifier)>>)

\* The items as they come, not sorted.
SortByCountUnsorted(items) == items

\* sorted(items, key=count, reverse=True): descending, equal counts keep
\* their order.
RECURSIVE SortByCountDesc(_)
SortByCountDesc(items) ==
    IF Len(items) <= 1 THEN items
    ELSE LET rest == SortByCountDesc(Tail(items))
             e == Head(items)
             before == {j \in 1..Len(rest) : rest[j].count > e.count}
             n == Cardinality(before)
         IN SubSeq(rest, 1, n) \o <<e>> \o SubSeq(rest, n + 1, Len(rest))

\* PromptEngine._keyword_combination
_keyword_combination(prompt, patterns, index) ==
    LET successful_keywords == patterns.successful_keywords
        sorted == SortByCountDesc(successful_keywords)
        top_keywords == SubSeq(sorted, 1, IF Len(sorted) < 3 THEN Len(sorted) ELSE 3)
    IN IF successful_keywords = <<>>
       THEN _descriptor_addition(prompt, index)
       ELSE LET keyword == top_keywords[(index % Len(top_keywords)) + 1].keyword
            IN Variation(prompt \o <<Plain(", "), Tag(keyword)>>,
                         "keyword_combination",
                         <<Plain("Added successful keyword: "), Tag(keyword)>>)

parameters == <<"high contrast", "low contrast", "fine detail", "coarse texture",
                "smooth transitions", "sharp edges">>

\* PromptEngine._parameter_tweaking
_parameter_tweaking(prompt, index) ==
    LET parameter == parameters[(index % Len(parameters)) + 1]
    IN Variation(Append(prompt, Plain(", " \o parameter)), "parameter_tweaking",
                 <<Plain("Added parameter: " \o parameter)>>)

\* PromptEngine._apply_variation_strategy: the variations the strategy may
\* give (one, except for the random replacements of keyword_substitution).
_apply_variation_strategy(base_prompt, strategy, current_keywords, patterns, index) ==
    CASE strategy = "keyword_substitution" ->
            _keyword_substitution(base_prompt, current_keywords, index)
      [] strategy = "descriptor_addition" -> {_descriptor_addition(base_prompt, index)}
      [] strategy = "emphasis_shifting" -> {_emphasis_shifting(base_prompt, index)}
      [] strategy = "keyword_combination" ->
            {_keyword_combination(base_prompt, patterns, index)}
      [] strategy = "parameter_tweaking" -> {_parameter_tweaking(base_prompt, index)}
      [] OTHER -> {_descriptor_addition(base_prompt, index)}

\* ------------------------------------------------------------------------
\* api/generate.py: generate_textures
\* ------------------------------------------------------------------------
GenerationRequest(theme_id, num_variations, size, quality) ==
    [theme_id |-> theme_id, num_variations |-> num_variations,
     size |-> size, quality |-> quality]

\* The prompt texts the loop "for i in range(request.num_variations)" may
\* append for index i: the endpoint passes {} as patterns to both calls.
\* choice: what random.choice returns for this index.
VariationPrompts(base_prompt, i, choice) ==
    {v.prompt : v \in
        _apply_variation_strategy(base_prompt,
                                  _select_variation_strategy(i, EmptyPatterns, choice),
                                  extract_keywords(base_prompt), EmptyPatterns, i)}

\* The lists prompt_variations the loop may build for n variations when
\* random.choice returns choices[i + 1] for index i.
PromptVariationLists(base_prompt, n, choices) ==
    LET all == UNION {VariationPrompts(base_prompt, i, choices[i + 1]) :
                         i \in 0..(n - 1)}
    IN {pv \in [1..n -> all] :
           \A i \in 0..(n - 1) :
              pv[i + 1] \in VariationPrompts(base_prompt, i, choices[i + 1])}

\* f"texture_{generation.id}_{image_index}.png"
Filename(generation_id, image_index) ==
    <<"texture_", generation_id, "_", image_index, ".png">>

\* f"theme_{request.theme_id}/gen_{generation.id}/{filename}"
FilePath(theme_id, generation_id, filename) ==
    <<"theme_", theme_id, "/gen_", generation_id, "/">> \o filename

\* Tasks that take their prompts from the other end of the list.
TaskArgsReversed(prompt_variations, i) ==
    [image_index |-> i + 1,
     prompt |-> prompt_variations[Len(prompt_variations) - i],
     total_count |-> Len(prompt_variations)]

\* The arguments of the i-th task (i from 0, as enumerate counts):
\*   loop.run_in_executor(None, generate_single_image, i+1, prompt, total_count)
TaskArgs(prompt_variations, i) ==
    [image_index |-> i + 1, prompt |-> prompt_variations[i + 1],
     total_count |-> Len(prompt_variations)]

Pending == [done |-> FALSE, ok |-> FALSE, dict |-> <<>>]
\* generate_single_image returned None.
ResultNone == [done |-> TRUE, ok |-> FALSE, dict |-> <<>>]
\* generate_single_image returned the image dictionary d.
ResultDict(d) == [done |-> TRUE, ok |-> TRUE, dict |-> d]

\* Without the lower bound of the check of num_variations.
ValidNumVariationsNoLower(num_variations) == num_variations <= 6

\* "1 <= request.num_variations <= 6"
ValidNumVariations(num_variations) == 1 <= num_variations /\ num_variations <= 6

\* request.size in ["1024x1024", "1792x1024", "1024x1792"]
ValidSize(size) == size \in {"1024x1024", "1792x1024", "1024x1792"}

\* request.quality in ["standard", "hd"]
ValidQuality(quality) == quality \in {"standard", "hd"}

\* generate_textures up to "await asyncio.gather(...)".  api_key: whether
\* OPENAI_API_KEY is set in the environment; choices: what random.choice
\* returns in the calls of _select_variation_strategy, one per index.
generate_textures(request, api_key, choices) ==
    /\ gen.pc # "await"
    /\ IF ~ValidNumVariations(request.num_variations)
       THEN /\ response' = Response("generate_textures", request, 400, NoneStr,
                             "Number of variations must be between 1 and 6", <<>>)
            /\ UNCHANGED <<generations, gen>>
       ELSE IF ~ValidSize(request.size)
       THEN /\ response' = Response("generate_textures", request, 400, NoneStr,
                                    "Invalid image size", <<>>)
            /\ UNCHANGED <<generations, gen>>
       ELSE IF ~ValidQuality(request.quality)
       THEN /\ response' = Response("generate_textures", request, 400, NoneStr,
                                    "Invalid quality setting", <<>>)
            /\ UNCHANGED <<generations, gen>>
       ELSE IF ~api_key
       THEN /\ response' = Response("generate_textures", request, 500, NoneStr,
                                    "OpenAI API key not configured", <<>>)
            /\ UNCHANGED <<generations, gen>>
       ELSE IF request.theme_id \notin DOMAIN themes
       THEN /\ response' = Response("generate_textures", request, 404, NoneStr,
                                    "Theme not found", <<>>)
            /\ UNCHANGED <<generations, gen>>
       ELSE LET base_prompt == themes[request.theme_id].base_prompt
                n == request.num_variations
                id == NextId(generations)
            IN /\ id <= MaxGenerationId
               /\ SetMax((DOMAIN images) \cup {0}) + n <= MaxImageId
               /\ \E prompt_variations \in PromptVariationLists(base_prompt, n, choices) :
                    /\ generations' = Insert(generations, id,
                          [theme_id |-> request.theme_id,
                           base_prompt |-> base_prompt,
                           variation_params |->
                              [num_variations |-> request.num_variations,
                               size |-> request.size,
                               quality |-> request.quality]])
                    /\ gen' = [pc |-> "await",
                               request |-> request,
                               generation_id |-> id,
                               base_prompt |-> base_prompt,
                               prompt_variations |-> prompt_variations,
                               tasks |-> [k \in 1..n |->
                                             TaskArgs(prompt_variations, k - 1)],
                               results |-> [k \in 1..n |-> Pending],
                               completed |-> <<>>]
                    /\ response' = Response("generate_textures", request, 0,
                                            "awaiting", NoneStr,
                                            [generation_id |-> id])
    /\ UNCHANGED <<themes, images, prompt_history>>

TaskOutcomes == {"ok", "no_variations", "download_failed", "save_failed", "exception"}

\* generate_single_image, the k-th task of the thread pool, runs to its
\* return.  outcome: what the image API, the download and the file system did.
generate_single_image(k, outcome) ==
    /\ gen.pc = "await"
    /\ k \in 1..Len(gen.tasks)
    /\ ~gen.results[k].done
    /\ LET image_index == gen.tasks[k].image_index
           prompt == gen.tasks[k].prompt
           filename == Filename(gen.generation_id, image_index)
           result ==
              IF outcome = "ok"
              THEN ResultDict(
                     [filename |-> filename,
                      file_path |-> FilePath(gen.request.theme_id,
                                             gen.generation_id, filename),
                      prompt |-> prompt,
                      keywords |-> extract_keywords(prompt),
                      variation_params |-> <<>>,
                      image_index |-> image_index])
              ELSE ResultNone
       IN /\ gen' = [gen EXCEPT !.results[k] = result,
                                !.completed = Append(@, k)]
          /\ response' = Response("generate_single_image", gen.tasks[k], 0,
                                  outcome, NoneStr, result)
    /\ UNCHANGED store

ImageRow(generation_id, result) ==
    [generation_id |-> generation_id, filename |-> result.filename,
     file_path |-> result.file_path, prompt |-> result.prompt,
     keywords |-> result.keywords, rating |-> NoneVal,
     variation_params |-> result.variation_params]

\* The entry of generated_images for a stored image.
ImageDict(id, row) ==
    [id |-> id, filename |-> row.filename, file_path |-> row.file_path,
     prompt |-> row.prompt, keywords |-> row.keywords, rating |-> row.rating]

\* Reading generation.id.  The attribute is loaded after db.refresh(generation);
\* every commit and every rollback of the session expires it, and an expired
\* attribute is read back from the table: that raises when the session's
\* transaction is inactive or the row is gone.
CanReadGeneration(acc, generation_id) ==
    \/ acc.generation_loaded
    \/ acc.session_active /\ generation_id \in DOMAIN generations

\* The loop "for i, result in enumerate(results)" from the k-th result on.
\* db_faults: the positions whose INSERT the database fails.  A failed flush
\* rolls the transaction back and leaves the session inactive until
\* db.rollback(), which the "except" of the loop does not call.
RECURSIVE ProcessResults(_, _, _, _, _)
ProcessResults(results, k, acc, db_faults, generation_id) ==
    IF k > Len(results) THEN acc
    ELSE LET result == results[k]
         IN IF ~result.ok
            THEN ProcessResults(results, k + 1, acc, db_faults, generation_id)
            ELSE IF ~CanReadGeneration(acc, generation_id) \/ ~acc.session_active
            THEN ProcessResults(results, k + 1, acc, db_faults, generation_id)
            ELSE IF k \in db_faults
            THEN ProcessResults(results, k + 1,
                    [acc EXCEPT !.session_active = FALSE,
                                !.generation_loaded = FALSE],
                    db_faults, generation_id)
            ELSE LET id == NextId(acc.images)
                     row == ImageRow(generation_id, result.dict)
                 IN ProcessResults(results, k + 1,
                       [acc EXCEPT
                          !.images = Insert(@, id, row),
                          !.generated_images = Append(@, ImageDict(id, row)),
                          !.generation_loaded = FALSE,
                          !.stored = Append(@, [index |-> k - 1, image_id |-> id])],
                       db_faults, generation_id)

\* generate_textures after the await: the results are stored one at a time
\* and the response is built.  "stored" and "completed" are not part of the
\* HTTP body: they record which request index (from 0) each stored image row
\* came from and the order in which the thread pool finished the tasks.
generate_textures_collect(db_faults) ==
    /\ gen.pc = "await"
    /\ \A k \in 1..Len(gen.results) : gen.results[k].done
    /\ LET acc == ProcessResults(gen.results, 1,
                     [images |-> images, generated_images |-> <<>>,
                      generation_loaded |-> TRUE, session_active |-> TRUE,
                      stored |-> <<>>],
                     db_faults, gen.generation_id)
       IN /\ images' = acc.images
          /\ gen' = NoGen
          /\ response' =
               IF acc.generated_images = <<>>
               THEN Response("generate_textures", gen.request, 500, NoneStr,
                             "Failed to generate any images",
                             [stored |-> acc.stored, completed |-> gen.completed])
               ELSE IF ~CanReadGeneration(acc, gen.generation_id)
               THEN Response("generate_textures", gen.request, 500, NoneStr,
                             "Failed to generate textures",
                             [stored |-> acc.stored, completed |-> gen.completed])
               ELSE Response("generate_textures", gen.request, 200, "ok", NoneStr,
                             [generation_id |-> gen.generation_id,
                              images |-> acc.generated_images,
                              base_prompt |-> gen.base_prompt,
                              variations_generated |-> Len(acc.generated_images),
                              stored |-> acc.stored,
                              completed |-> gen.completed])
    /\ UNCHANGED <<themes, generations, prompt_history>>

\* ------------------------------------------------------------------------
\* Inputs
\* ------------------------------------------------------------------------
P1 == <<Plain("organic cellular "), Tag("flowing")>>
P2 == <<Plain("plain text")>>
ThemeIdInputs == 1..MaxThemeId
ImageIdInputs == 1..MaxImageId
\* Below, at and above the ends of the range 1..5.
RatingInputs == {0, 1, 5, 6}
ValidRequest(t, n) == GenerationRequest(t, n, "1024x1024", "standard")
\* random.choice returns the same strategy at every index.
SameChoice(strategy) == [k \in 1..6 |-> strategy]

\* ------------------------------------------------------------------------
\* Images: creation by generate_textures, rate_image, delete_image
\* ------------------------------------------------------------------------
\* One theme; all images of this section are generated for it.
ImgCreateTheme == themes = <<>> /\ create_theme("a", P2, NoneStr, NoneVal)

ImgGenerate ==
    \E n \in 1..MaxVariationsModel :
        generate_textures(ValidRequest(1, n), TRUE, SameChoice("descriptor_addition"))

ImgSingleImage ==
    \E k \in 1..MaxVariationsModel, outcome \in {"ok", "download_failed"} :
        generate_single_image(k, outcome)

ImgCollect == generate_textures_collect({})

RateImage == \E i \in ImageIdInputs, r \in RatingInputs : rate_image(i, r)

DeleteImage == \E i \in ImageIdInputs : delete_image(i)

NextImages ==
    \/ ImgCreateTheme
    \/ ImgGenerate
    \/ ImgSingleImage
    \/ ImgCollect
    \/ RateImage
    \/ DeleteImage

SpecImages == Init /\ [][NextImages]_vars

\* C1: every stored image's rating is unset or an integer in 1..5, and a
\* rate_image request with a value outside 1..5 is answered 400 and leaves
\* the images as they were.
C1_RatingsInRange ==
    /\ [](\A i \in DOMAIN images :
             images[i].rating = NoneVal \/ images[i].rating \in 1..5)
    /\ [][(response'.op = "rate_image" /\ response'.args.rating \notin 1..5)
             => (response'.code = 400 /\ images' = images)]_vars

\* An out-of-range rating was refused for an image that carries a rating.
C1_Witness ==
    /\ response.op = "rate_image"
    /\ response.code = 400
    /\ response.args.image_id \in DOMAIN images
    /\ images[response.args.image_id].rating # NoneVal

\* C2: a successful rate_image(i, r) stores r as the rating of image i,
\* whatever the rating was, and changes nothing else: no other field of
\* image i, no other image, no generation, no theme.
C2_RateSetsOnlyRating ==
    [][(response'.op = "rate_image" /\ response'.code = 200)
         => LET i == response'.args.image_id
                r == response'.args.rating
            IN /\ i \in DOMAIN images
               /\ images' = [images EXCEPT ![i].rating = r]
               /\ images'[i].rating = r
               /\ <<themes, generations, prompt_history>>' =
                     <<themes, generations, prompt_history>>]_vars

\* A rating was stored while another image carries a different rating.
C2_Witness ==
    /\ response.op = "rate_image"
    /\ response.code = 200
    /\ images[response.args.image_id].rating = response.args.rating
    /\ \E j \in DOMAIN images :
          /\ j # response.args.image_id
          /\ images[j].rating # NoneVal
          /\ images[j].rating # response.args.rating


\* ------------------------------------------------------------------------
\* Deleting themes that have generations, images, prompt history, children
\* ------------------------------------------------------------------------
\* Here the requests are served one after the other: none arrives while a
\* generation awaits its images.
Idle == gen.pc = "idle"

\* A first theme; the others are branched from the themes there are.
DelCreateTheme ==
    Idle /\ themes = <<>> /\ create_theme("a", P2, NoneStr, NoneVal)

DelBranchTheme ==
    Idle /\ \E p \in ThemeIdInputs : branch_theme(p, "b", NonePrompt, NoneStr)

DelInsertHistory == Idle /\ \E t \in ThemeIdInputs : insert_prompt_history(t)

DelGenerate ==
    \E t \in ThemeIdInputs :
        generate_textures(ValidRequest(t, 1), TRUE, SameChoice("descriptor_addition"))

DelSingleImage == generate_single_image(1, "ok")

DelCollect == generate_textures_collect({})

DeleteTheme ==
    Idle /\ \E t \in ThemeIdInputs, fault \in 0..4 : delete_theme(t, fault)

NextDelete ==
    \/ DelCreateTheme
    \/ DelBranchTheme
    \/ DelInsertHistory
    \/ DelGenerate
    \/ DelSingleImage
    \/ DelCollect
    \/ DeleteTheme

SpecDelete == Init /\ [][NextDelete]_vars

\* What a successful delete_theme(t) removes, and what it keeps of the
\* generations, images and prompt history.
DeletedSubtree(t) ==
    LET gids == GenerationIdsOf(Db, t)
    IN /\ t \in DOMAIN themes
       /\ DOMAIN themes' = (DOMAIN themes) \ {t}
       /\ \A g \in DOMAIN generations' : generations'[g].theme_id # t
       /\ \A i \in DOMAIN images' : images'[i].generation_id \notin gids
       /\ \A h \in DOMAIN prompt_history' : prompt_history'[h].theme_id # t
       /\ generations' = Remove(generations, gids)
       /\ images' = Remove(images, {i \in DOMAIN images :
                                       images[i].generation_id \in gids})
       /\ prompt_history' = Remove(prompt_history,
                                   {h \in DOMAIN prompt_history :
                                       prompt_history[h].theme_id = t})

\* C3 as stated: delete_theme(t) is all-or-nothing; after success the store
\* holds neither theme t nor a generation, image or prompt-history entry of
\* t, and the records of every other theme are untouched; after a failure
\* nothing has been removed.
C3_DeleteAllOrNothing ==
    [][response'.op = "delete_theme"
         => IF response'.code = 200
            THEN /\ DeletedSubtree(response'.args.theme_id)
                 /\ \A u \in DOMAIN themes' : themes'[u] = themes[u]
            ELSE store' = store]_vars

\* C3, amended: as above, except that a child theme of t is kept with its
\* parent_theme_id cleared and its updated_at written; every other field of
\* every other theme and all generations, images and prompt-history
\* entries of other themes are untouched; after a failure the store is
\* unchanged.
C3_DeleteAllOrNothingChildrenDetached ==
    [][response'.op = "delete_theme"
         => IF response'.code = 200
            THEN LET t == response'.args.theme_id
                 IN /\ DeletedSubtree(t)
                    /\ \A u \in DOMAIN themes' :
                          themes'[u] =
                             IF themes[u].parent_theme_id = t
                             THEN [themes[u] EXCEPT !.parent_theme_id = NoneVal,
                                                    !.updated_at = "<timestamp>"]
                             ELSE themes[u]
            ELSE store' = store]_vars

\* A theme was deleted together with a generation, an image and a prompt
\* history entry, while its child, now without parent, keeps a generation
\* with its image.
C3_Witness ==
    /\ response.op = "delete_theme"
    /\ response.code = 200
    /\ response.data.generations_deleted > 0
    /\ response.data.images_deleted > 0
    /\ response.data.prompt_history_deleted > 0
    /\ \E u \in DOMAIN themes, i \in DOMAIN images :
          /\ themes[u].description = "Branched from a"
          /\ themes[u].parent_theme_id = NoneVal
          /\ images[i].generation_id \in DOMAIN generations
          /\ generations[images[i].generation_id].theme_id = u

\* ------------------------------------------------------------------------
\* Theme lineage
\* ------------------------------------------------------------------------
LinCreateTheme ==
    \E p \in {NoneVal} \cup ThemeIdInputs : create_theme("a", P2, NoneStr, p)

LinBranchTheme == \E p \in ThemeIdInputs : branch_theme(p, "b", NonePrompt, NoneStr)

LinUpdateTheme == \E t \in ThemeIdInputs : update_theme(t, "c", NonePrompt, NoneStr)

LinDeleteTheme == \E t \in ThemeIdInputs : delete_theme(t, 0)

LinLineage == \E t \in ThemeIdInputs : get_theme_lineage(t)

NextLineage ==
    \/ LinCreateTheme
    \/ LinBranchTheme
    \/ LinUpdateTheme
    \/ LinDeleteTheme
    \/ LinLineage

SpecLineage == Init /\ [][NextLineage]_vars

\* C4: after any sequence of create_theme, branch_theme, update_theme and
\* delete_theme, every parent_theme_id that is set is the id of a theme in
\* the store.
C4_ParentExists ==
    \A t \in DOMAIN themes :
        themes[t].parent_theme_id # NoneVal
           => themes[t].parent_theme_id \in DOMAIN themes

\* C5: the parent relation has no cycle (following parent_theme_id from any
\* theme ends), and get_theme_lineage ends with a finite lineage_depth.
C5_ParentForest ==
    /\ \A t \in DOMAIN themes :
          AncestorWalk(themes, t, <<>>, Cardinality(DOMAIN themes)).ends
    /\ response.op = "get_theme_lineage" => response.status # "diverges"


\* ------------------------------------------------------------------------
\* Generation: parallel image calls, failures, storing the results
\* ------------------------------------------------------------------------
\* One theme; all requests of this section are for it.
GenCreateTheme == themes = <<>> /\ create_theme("a", P1, NoneStr, NoneVal)

GenGenerate ==
    \E n \in 1..MaxVariationsModel,
       strategy \in {"keyword_combination", "emphasis_shifting"} :
        generate_textures(ValidRequest(1, n), TRUE, SameChoice(strategy))

GenSingleImage ==
    \E k \in 1..MaxVariationsModel, outcome \in {"ok", "download_failed"} :
        generate_single_image(k, outcome)

GenCollect ==
    \E db_faults \in SUBSET (1..MaxVariationsModel) :
        generate_textures_collect(db_faults)

GenRateImage ==
    \E i \in ImageIdInputs : rate_image(i, HIGH_RATING_THRESHOLD)

NextGenerate ==
    \/ GenCreateTheme
    \/ GenGenerate
    \/ GenSingleImage
    \/ GenCollect
    \/ GenRateImage

SpecGenerate == Init /\ [][NextGenerate]_vars

\* The step in which generate_textures stores the results and answers.
CollectStep == gen.pc = "await" /\ gen'.pc = "idle"

\* C6: failed image calls and failed inserts of some variations do not
\* affect the others: the answer lists exactly the variations that were
\* generated and stored, variations_generated is their number, and the
\* request ends in HTTP 500 if and only if that number is zero.
C6_PartialSuccess ==
    [][CollectStep =>
         LET stored == response'.data.stored
         IN /\ response'.code = 500 <=> stored = <<>>
            /\ response'.code = 200 =>
                  /\ response'.data.variations_generated = Len(stored)
                  /\ Len(response'.data.images) = Len(stored)
                  /\ \A j \in 1..Len(stored) :
                        response'.data.images[j].id = stored[j].image_id]_vars

\* C7: the image row stored for request index i carries the prompt of
\* variation i and the filename texture_<generation id>_<i+1>.png, in
\* whatever order the parallel calls finish; two request indices never get
\* the same filename.
C7_IndexPromptFilename ==
    [][CollectStep =>
         LET stored == response'.data.stored
         IN /\ \A j \in 1..Len(stored) :
                  LET i == stored[j].index
                      row == images'[stored[j].image_id]
                  IN /\ stored[j].image_id \notin DOMAIN images
                     /\ row.generation_id = gen.generation_id
                     /\ row.prompt = gen.prompt_variations[i + 1]
                     /\ row.filename =
                           <<"texture_", gen.generation_id, "_", i + 1, ".png">>
            /\ \A j1, j2 \in 1..Len(stored) :
                  j1 # j2 =>
                     /\ stored[j1].index # stored[j2].index
                     /\ images'[stored[j1].image_id].filename #
                           images'[stored[j2].image_id].filename]_vars

\* Two variations with different prompts were stored after the second
\* task finished before the first.
C7_Witness ==
    /\ response.op = "generate_textures"
    /\ response.code = 200
    /\ response.data.completed = <<2, 1>>
    /\ Len(response.data.stored) = 2
    /\ images[response.data.stored[1].image_id].prompt #
          images[response.data.stored[2].image_id].prompt


\* C9: once an image of a theme whose prompt has a ##keyword is rated 4 or
\* 5, the next generation for that theme builds variation 0 by
\* keyword_combination: the base prompt followed by ", ##k" for a keyword k
\* of a high-rated image of the theme.
C9_HistoryReachesEngine ==
    [][(gen.pc # "await" /\ gen'.pc = "await") =>
         LET t == gen'.request.theme_id
             high == {i \in DOMAIN images :
                         /\ images[i].generation_id \in DOMAIN generations
                         /\ generations[images[i].generation_id].theme_id = t
                         /\ images[i].rating \in {4, 5}}
             successful == UNION {SeqToSet(extract_keywords(images[i].prompt)) :
                                     i \in high}
         IN successful # {} =>
               \E k \in successful :
                  gen'.prompt_variations[1] =
                     gen'.base_prompt \o <<Plain(", "), Tag(k)>>]_vars

\* ------------------------------------------------------------------------
\* Request validation of generate_textures
\* ------------------------------------------------------------------------
ValCreateTheme == create_theme("a", P2, NoneStr, NoneVal)

ValGenerate ==
    \E t \in ThemeIdInputs, n \in {0, 1, 7},
       size \in {"1024x1024", "512x512"},
       quality \in {"hd", "ultra"}, api_key \in BOOLEAN :
        generate_textures(GenerationRequest(t, n, size, quality), api_key,
                          SameChoice("parameter_tweaking"))

ValSingleImage == generate_single_image(1, "ok")

ValCollect == generate_textures_collect({})

NextValidation ==
    \/ ValCreateTheme
    \/ ValGenerate
    \/ ValSingleImage
    \/ ValCollect

SpecValidation == Init /\ [][NextValidation]_vars

\* C8: a generation request with num_variations outside 1..6, a size other
\* than 1024x1024, 1792x1024, 1024x1792, or a quality other than standard,
\* hd is answered HTTP 400 before any prompt is built: no generation, image
\* or task comes into being.
C8_InvalidRequestRejected ==
    [][(response'.op = "generate_textures" /\ gen.pc # "await"
          /\ (\/ response'.args.num_variations \notin 1..6
              \/ response'.args.size \notin {"1024x1024", "1792x1024", "1024x1792"}
              \/ response'.args.quality \notin {"standard", "hd"}))
         => (response'.code = 400 /\ store' = store /\ gen' = gen)]_vars

\* A request for an existing theme, with the API key set, was refused for
\* its parameters alone.
C8_Witness ==
    /\ response.op = "generate_textures"
    /\ response.code = 400
    /\ response.args.theme_id \in DOMAIN themes
    /\ response.args.num_variations \in 1..6
    /\ response.args.size \in {"1024x1024", "1792x1024", "1024x1792"}
    /\ response.args.quality = "ultra"
    /\ generations # <<>>


\* ------------------------------------------------------------------------
\* Branching
\* ------------------------------------------------------------------------
BrCreateTheme == \E bp \in {P1, P2} : create_theme("a", bp, NoneStr, NoneVal)

BrBranchTheme ==
    \E p \in ThemeIdInputs, np \in {NonePrompt, EmptyPrompt, P1, P2},
       d \in {NoneStr, "d"} :
        branch_theme(p, "b", np, d)

BrUpdateTheme ==
    \E t \in ThemeIdInputs, bp \in {P1, P2} : update_theme(t, NoneStr, bp, NoneStr)

BrDeleteTheme == \E t \in ThemeIdInputs : delete_theme(t, 0)

NextBranch ==
    \/ BrCreateTheme
    \/ BrBranchTheme
    \/ BrUpdateTheme
    \/ BrDeleteTheme

SpecBranch == Init /\ [][NextBranch]_vars

\* A branch_theme step on existing parent p added exactly one theme, child
\* of p, with the given base prompt, and left the themes it found unchanged.
BranchAdded(p, base_prompt) ==
    \E id \in (DOMAIN themes') \ (DOMAIN themes) :
       /\ DOMAIN themes' = (DOMAIN themes) \cup {id}
       /\ themes'[id].parent_theme_id = p
       /\ themes'[id].base_prompt = base_prompt
       /\ \A t \in DOMAIN themes : themes'[t] = themes[t]

UpdCreateTheme == themes = <<>> /\ create_theme("a", P2, NoneStr, NoneVal)

UpdBranchTheme == \E p \in ThemeIdInputs : branch_theme(p, "b", NonePrompt, NoneStr)

UpdUpdateTheme ==
    \E t \in ThemeIdInputs, name \in {NoneStr, ""},
       base_prompt \in {NonePrompt, P1}, description \in {NoneStr, "d"} :
        update_theme(t, name, base_prompt, description)

NextUpdate ==
    \/ UpdCreateTheme
    \/ UpdBranchTheme
    \/ UpdUpdateTheme

SpecUpdate == Init /\ [][NextUpdate]_vars

\* C11: update_theme on an existing theme sets exactly those of name,
\* base_prompt and description that are supplied (not None), and
\* updated_at; parent_theme_id, created_at, the id and every other theme
\* stay as they were; on an id that does not exist it answers "not found"
\* and changes nothing.  Being a property of every step, it holds for any
\* number of successive updates.
C11_UpdateFrame ==
    [][response'.op = "update_theme" =>
         LET a == response'.args
             t == a.theme_id
         IN IF t \in DOMAIN themes
            THEN /\ DOMAIN themes' = DOMAIN themes
                 /\ \A u \in (DOMAIN themes) \ {t} : themes'[u] = themes[u]
                 /\ themes'[t].name =
                       IF a.name # "<None>" THEN a.name ELSE themes[t].name
                 /\ themes'[t].base_prompt =
                       IF a.base_prompt # NonePrompt THEN a.base_prompt
                       ELSE themes[t].base_prompt
                 /\ themes'[t].description =
                       IF a.description # "<None>" THEN a.description
                       ELSE themes[t].description
                 /\ themes'[t].updated_at = "<timestamp>"
                 /\ themes'[t].parent_theme_id = themes[t].parent_theme_id
                 /\ themes'[t].created_at = themes[t].created_at
                 /\ response'.data.id = t
                 /\ <<generations, images, prompt_history>>' =
                       <<generations, images, prompt_history>>
            ELSE /\ response'.error = "Theme not found"
                 /\ store' = store]_vars

\* A branched theme that had been updated before was updated again, with
\* the empty name and no prompt: it has the empty name, the prompt of the
\* earlier update and its parent.
C11_Witness ==
    /\ response.op = "update_theme"
    /\ response.status = "updated"
    /\ response.args.name = ""
    /\ response.args.base_prompt = NonePrompt
    /\ LET t == response.args.theme_id
       IN /\ themes[t].name = ""
          /\ themes[t].base_prompt = P1
          /\ themes[t].parent_theme_id # NoneVal
          /\ themes[t].parent_theme_id \in DOMAIN themes


\* ------------------------------------------------------------------------
\* api/themes.py: create_theme and get_theme, the endpoints over ThemeManager
\* ------------------------------------------------------------------------
\* ThemeManager.__init__(self): the constructor takes no argument besides
\* self; a call with nargs positional arguments raises TypeError unless
\* nargs = 0.
ThemeManagerAccepts(nargs) == nargs = 0

\* POST /api/themes/: "theme_manager = ThemeManager(db)" inside the try;
\* "except Exception" answers 500, an "error" in the result 400.
api_create_theme(name, description, base_prompt, parent_theme_id) ==
    /\ ThemeManagerAccepts(1) => NextId(themes) <= MaxThemeId
    /\ LET args == [name |-> name, description |-> description,
                    base_prompt |-> base_prompt,
                    parent_theme_id |-> parent_theme_id]
       IN IF ~ThemeManagerAccepts(1)
          THEN /\ response' = Response("api_create_theme", args, 500, NoneStr,
                                       "Failed to create theme", <<>>)
               /\ UNCHANGED themes
          ELSE LET id == NextId(themes)
                   row == ThemeRow(name, description, base_prompt, parent_theme_id)
               IN /\ themes' = Insert(themes, id, row)
                  /\ response' = Response("api_create_theme", args, 200,
                                          "created", NoneStr, ThemeDict(id, row))
    /\ UNCHANGED <<generations, images, prompt_history, gen>>

\* GET /api/themes/{theme_id}
api_get_theme(theme_id) ==
    /\ response' =
         IF ~ThemeManagerAccepts(1)
         THEN Response("api_get_theme", [theme_id |-> theme_id], 500, NoneStr,
                       "Failed to fetch theme", <<>>)
         ELSE IF theme_id \notin DOMAIN themes
         THEN Response("api_get_theme", [theme_id |-> theme_id], 404, NoneStr,
                       "Theme not found", <<>>)
         ELSE Response("api_get_theme", [theme_id |-> theme_id], 200, NoneStr,
                       NoneStr, ThemeDict(theme_id, themes[theme_id]))
    /\ UNCHANGED <<store, gen>>

\* The endpoints, and ThemeManager() used directly.
ApiCreateTheme ==
    \E name \in {"a", "b"}, base_prompt \in {P1, P2} :
        api_create_theme(name, NoneStr, base_prompt, NoneVal)

ApiGetTheme == \E t \in 1..(MaxThemeId + 1) : api_get_theme(t)

ApiManagerCreateTheme ==
    \E name \in {"a", "b"}, base_prompt \in {P1, P2} :
        create_theme(name, base_prompt, NoneStr, NoneVal)

NextThemesApi ==
    \/ ApiCreateTheme
    \/ ApiGetTheme
    \/ ApiManagerCreateTheme

SpecThemesApi == Init /\ [][NextThemesApi]_vars

\* C12: POST /api/themes/ with a name and a base_prompt answers 200 with a
\* positive id; GET /api/themes/{id} answers 200 with that id and the
\* theme's name for a theme in the store, and 404 for an id that was never
\* created.
C12_ThemesEndpoints ==
    [][/\ response'.op = "api_create_theme" =>
            /\ response'.code = 200
            /\ response'.data.id > 0
            /\ response'.data.id \in DOMAIN themes'
            /\ themes'[response'.data.id].name = response'.args.name
       /\ response'.op = "api_get_theme" =>
            IF response'.args.theme_id \in DOMAIN themes
            THEN /\ response'.code = 200
                 /\ response'.data.id = response'.args.theme_id
                 /\ response'.data.name = themes[response'.args.theme_id].name
            ELSE response'.code = 404]_vars

\* ------------------------------------------------------------------------
\* core/rating_analyzer.py: RatingAnalyzer
\* ------------------------------------------------------------------------
\* A record of theme_data / image_data is [rating, created_at, keywords];
\* rating NoneVal stands for a missing or None 'rating'. Rates and averages
\* are carried in hundredths (0.7 is 70, 4.0 is 400).
MaxRecords == 5

MIN_SAMPLES_FOR_ANALYSIS == 3
MIN_DATA_SIZE_FOR_HIGH_CONFIDENCE == 10
MIN_DATA_SIZE_FOR_MEDIUM_CONFIDENCE == 5
HIGH_SUCCESS_RATE_THRESHOLD == 70
MEDIUM_SUCCESS_RATE_THRESHOLD == 50
EXCELLENT_SUCCESS_RATE == 70
EXCELLENT_AVG_RATING == 400
GOOD_SUCCESS_RATE == 50
GOOD_AVG_RATING == 350
FAIR_SUCCESS_RATE == 30
FAIR_AVG_RATING == 300

Record(rating, created_at, keywords) ==
    [rating |-> rating, created_at |-> created_at, keywords |-> keywords]

RECURSIVE SumSeq(_)
SumSeq(s) == IF s = <<>> THEN 0 ELSE Head(s) + SumSeq(Tail(s))

\* round(num / den, 2) in hundredths: Python rounds the double to the
\* nearest hundredth, and an exact tie (a dyadic value such as 0.125) to
\* the even one.
Round2(num, den) ==
    LET q == (100 * num) \div den
        r == (100 * num) % den
    IN IF 2 * r < den THEN q
       ELSE IF 2 * r > den THEN q + 1
       ELSE IF q % 2 = 0 THEN q ELSE q + 1

\* [item.get('rating', 0) for item in theme_data]: the list without the
\* filter "is not None".
RECURSIVE RatingsOfUnfiltered(_)
RatingsOfUnfiltered(theme_data) ==
    IF theme_data = <<>> THEN <<>>
    ELSE <<Head(theme_data).rating>> \o RatingsOfUnfiltered(Tail(theme_data))

\* [item.get('rating', 0) for item in theme_data
\*  if item.get('rating') is not None]
RECURSIVE RatingsOf(_)
RatingsOf(theme_data) ==
    IF theme_data = <<>> THEN <<>>
    ELSE IF Head(theme_data).rating # NoneVal
         THEN <<Head(theme_data).rating>> \o RatingsOf(Tail(theme_data))
         ELSE RatingsOf(Tail(theme_data))

\* sorted(ratings), by insertion.
RECURSIVE SortedInts(_)
SortedInts(s) ==
    IF Len(s) <= 1 THEN s
    ELSE LET rest == SortedInts(Tail(s))
             n == Cardinality({j \in 1..Len(rest) : rest[j] <= Head(s)})
         IN SubSeq(rest, 1, n) \o <<Head(s)>> \o SubSeq(rest, n + 1, Len(rest))

\* statistics.median(ratings), in hundredths.
Median(ratings) ==
    LET data == SortedInts(ratings)
        n == Len(data)
    IN IF n % 2 = 1 THEN 100 * data[(n \div 2) + 1]
       ELSE 50 * (data[n \div 2] + data[(n \div 2) + 1])

\* Counter(ratings)
RatingDistribution(ratings) ==
    [r \in SeqToSet(ratings) |-> Cardinality({i \in 1..Len(ratings) : ratings[i] = r})]

HighRatedCount(ratings) ==
    Cardinality({i \in 1..Len(ratings) : ratings[i] >= HIGH_RATING_THRESHOLD})

\* The records in the order of the list.
InListOrder(theme_data) == theme_data

\* sorted(theme_data, key=created_at): a stable sort.
RECURSIVE SortedByCreatedAt(_)
SortedByCreatedAt(theme_data) ==
    IF Len(theme_data) <= 1 THEN theme_data
    ELSE LET rest == SortedByCreatedAt(Tail(theme_data))
             e == Head(theme_data)
             n == Cardinality({j \in 1..Len(rest) : rest[j].created_at < e.created_at})
         IN SubSeq(rest, 1, n) \o <<e>> \o SubSeq(rest, n + 1, Len(rest))

\* recent_avg > early_avg + 0.5 over three ratings each: 2*recent > 2*early + 3.
_analyze_rating_trend(theme_data) ==
    IF Len(theme_data) < 5 THEN "insufficient_data"
    ELSE LET ratings == RatingsOf(SortedByCreatedAt(theme_data))
         IN IF Len(ratings) < 3 THEN "insufficient_data"
            ELSE LET recent == SumSeq(SubSeq(ratings, Len(ratings) - 2, Len(ratings)))
                     early == SumSeq(SubSeq(ratings, 1, 3))
                 IN IF 2 * recent > 2 * early + 3 THEN "improving"
                    ELSE IF 2 * recent < 2 * early - 3 THEN "declining"
                    ELSE "stable"

\* success_rate is high / n and avg_rating is total / n, both unrounded.
_get_performance_level(high, total, n) ==
    IF 100 * high >= EXCELLENT_SUCCESS_RATE * n /\ 100 * total >= EXCELLENT_AVG_RATING * n
    THEN "excellent"
    ELSE IF 100 * high >= GOOD_SUCCESS_RATE * n /\ 100 * total >= GOOD_AVG_RATING * n
    THEN "good"
    ELSE IF 100 * high >= FAIR_SUCCESS_RATE * n /\ 100 * total >= FAIR_AVG_RATING * n
    THEN "fair"
    ELSE "poor"

ThemePerformance(theme_data) ==
    LET ratings == RatingsOf(theme_data)
    IN IF theme_data = <<>> THEN [error |-> "No data provided"]
       ELSE IF ratings = <<>> THEN [error |-> "No ratings found"]
       ELSE LET high_rated_count == HighRatedCount(ratings)
            IN [total_images |-> Len(theme_data),
                rated_images |-> Len(ratings),
                average_rating |-> Round2(SumSeq(ratings), Len(ratings)),
                median_rating |-> Median(ratings),
                high_rated_count |-> high_rated_count,
                success_rate |-> Round2(high_rated_count, Len(ratings)),
                rating_distribution |-> RatingDistribution(ratings),
                trend |-> _analyze_rating_trend(theme_data),
                performance_level |->
                    _get_performance_level(high_rated_count, SumSeq(ratings), Len(ratings))]

analyze_theme_performance(theme_data) ==
    /\ LET result == ThemePerformance(theme_data)
       IN response' =
            IF "error" \in DOMAIN result
            THEN Response("analyze_theme_performance", [theme_data |-> theme_data],
                          0, NoneStr, result.error, <<>>)
            ELSE Response("analyze_theme_performance", [theme_data |-> theme_data],
                          0, "ok", NoneStr, result)
    /\ UNCHANGED <<store, gen>>

\* Lists of at most n records drawn from R.
RECURSIVE SeqsUpTo(_, _)
SeqsUpTo(R, n) ==
    IF n = 0 THEN {<<>>}
    ELSE LET shorter == SeqsUpTo(R, n - 1)
         IN shorter \cup {Append(s, r) : s \in {t \in shorter : Len(t) = n - 1}, r \in R}

\* A call of a function of the core library that has not returned yet.
Call(op, args) == Response(op, args, 0, "pending", NoneStr, <<>>)
Called(op) == response.op = op /\ response.status = "pending"
Returned(op) == response.op = op /\ response.status # "pending"

\* The state in which one of the given calls is about to be made.
InitCall(calls) ==
    /\ themes = <<>>
    /\ generations = <<>>
    /\ images = <<>>
    /\ prompt_history = <<>>
    /\ gen = NoGen
    /\ response \in calls

PerfRecords == {Record(r, 1, <<>>) : r \in {NoneVal, 2, 4, 5}}

InitPerformance ==
    InitCall({Call("analyze_theme_performance", [theme_data |-> d]) :
                  d \in SeqsUpTo(PerfRecords, MaxRecords)})

PerfAnalyze ==
    /\ Called("analyze_theme_performance")
    /\ analyze_theme_performance(response.args.theme_data)

NextPerformance == PerfAnalyze

SpecPerformance == InitPerformance /\ [][NextPerformance]_vars

\* C13: analyze_theme_performance answers the no-data failure exactly when
\* the record list is empty, the no-ratings failure exactly when the list is
\* non-empty and no record carries a rating, and a metrics result without
\* error in every other case.
C13_PerformanceFailures ==
    [][response'.op = "analyze_theme_performance" =>
        LET d == response'.args.theme_data
            rated == {i \in 1..Len(d) : d[i].rating # NoneVal}
        IN /\ response'.error = "No data provided" <=> d = <<>>
           /\ response'.error = "No ratings found" <=> (d # <<>> /\ rated = {})
           /\ (d # <<>> /\ rated # {}) =>
                /\ response'.error = NoneStr
                /\ response'.data.total_images = Len(d)
                /\ response'.data.rated_images = Cardinality(rated)]_vars

C13_Witness ==
    /\ Returned("analyze_theme_performance")
    /\ response.error = NoneStr
    /\ Len(response.args.theme_data) = 3
    /\ response.data.rated_images = 1
    /\ response.data.total_images = 3

\* ------------------------------------------------------------------------
\* core/prompt_engine.py: generate_variations with a theme history
\* ------------------------------------------------------------------------
MaxHistoryLen == 2

\* An entry of theme_history: a dictionary with a 'prompt' and, when
\* rating_key holds, a 'rating' key whose value may be None (NoneVal).
HistoryEntry(prompt, rating_key, rating) ==
    [prompt |-> prompt, rating_key |-> rating_key, rating |-> rating]

\* The argument theme_history: None, or a list of entries.
HistoryArg(is_none, entries) == [is_none |-> is_none, entries |-> entries]

\* img.get('rating', 0)
RatingGet(img) == IF img.rating_key THEN img.rating ELSE 0

\* img.get('rating', 0) >= 4 raises TypeError when the value is None.
CompareRaises(img) == img.rating_key /\ img.rating = NoneVal

\* keyword_counts[keyword] = keyword_counts.get(keyword, 0) + 1, over the
\* keywords in order; the dictionary keeps the order of first insertion.
RECURSIVE CountKeywords(_, _)
CountKeywords(keywords, keyword_counts) ==
    IF keywords = <<>> THEN keyword_counts
    ELSE LET keyword == Head(keywords)
             at == {j \in 1..Len(keyword_counts) : keyword_counts[j].keyword = keyword}
         IN CountKeywords(Tail(keywords),
                IF at = {}
                THEN Append(keyword_counts, [keyword |-> keyword, count |-> 1])
                ELSE [j \in 1..Len(keyword_counts) |->
                        IF j \in at
                        THEN [keyword |-> keyword, count |-> keyword_counts[j].count + 1]
                        ELSE keyword_counts[j]])

RECURSIVE SuccessfulKeywords(_)
SuccessfulKeywords(high_rated_images) ==
    IF high_rated_images = <<>> THEN <<>>
    ELSE extract_keywords(Head(high_rated_images).prompt)
            \o SuccessfulKeywords(Tail(high_rated_images))

\* PromptEngine._analyze_successful_patterns; raised tells that the
\* comparison of a None rating raised TypeError.
_analyze_successful_patterns(theme_history) ==
    IF theme_history.is_none \/ theme_history.entries = <<>>
    THEN [raised |-> FALSE, patterns |-> EmptyPatterns]
    ELSE IF \E i \in 1..Len(theme_history.entries) : CompareRaises(theme_history.entries[i])
    THEN [raised |-> TRUE, patterns |-> EmptyPatterns]
    ELSE LET high_rated_images ==
                 SelectSeq(theme_history.entries, LAMBDA img : RatingGet(img) >= 4)
         IN IF high_rated_images = <<>>
            THEN [raised |-> FALSE, patterns |-> EmptyPatterns]
            ELSE [raised |-> FALSE,
                  patterns |->
                      [successful_keywords |->
                           CountKeywords(SuccessfulKeywords(high_rated_images), <<>>),
                       high_rated_count |-> Len(high_rated_images),
                       total_count |-> Len(theme_history.entries)]]

\* The variation the loop may append for index i.
VariationsAt(base_prompt, i, patterns, choice) ==
    _apply_variation_strategy(base_prompt,
                              _select_variation_strategy(i, patterns, choice),
                              extract_keywords(base_prompt), patterns, i)

\* The lists "variations" the loop "for i in range(num_variations)" may build.
VariationLists(base_prompt, num_variations, patterns, choices) ==
    LET all == UNION {VariationsAt(base_prompt, i, patterns, choices[i + 1]) :
                         i \in 0..(num_variations - 1)}
    IN {vs \in [1..num_variations -> all] :
           \A i \in 0..(num_variations - 1) :
              vs[i + 1] \in VariationsAt(base_prompt, i, patterns, choices[i + 1])}

\* PromptEngine.generate_variations
generate_variations(base_prompt, num_variations, theme_history, choices) ==
    /\ LET args == [base_prompt |-> base_prompt, num_variations |-> num_variations,
                    theme_history |-> theme_history, choices |-> choices]
           analysis == _analyze_successful_patterns(theme_history)
       IN IF analysis.raised
          THEN response' = Response("generate_variations", args, 0, "raised",
                                    "TypeError", <<>>)
          ELSE \E variations \in VariationLists(base_prompt, num_variations,
                                                analysis.patterns, choices) :
                  response' = Response("generate_variations", args, 0, "ok",
                                       NoneStr, variations)
    /\ UNCHANGED <<store, gen>>

EngPrompts == {P1, P2, EmptyPrompt}
EngEntries ==
    {HistoryEntry(p, k, r) : p \in {P1, P2}, k \in {TRUE}, r \in {NoneVal, 2, 5}}
        \cup {HistoryEntry(p, FALSE, NoneVal) : p \in {P1, P2}}
EngHistories ==
    {HistoryArg(TRUE, <<>>)}
        \cup {HistoryArg(FALSE, e) : e \in SeqsUpTo(EngEntries, MaxHistoryLen)}

InitEngine ==
    InitCall({Call("generate_variations",
                   [base_prompt |-> p, num_variations |-> n, theme_history |-> h,
                    choices |-> SameChoice(c)]) :
                 p \in EngPrompts, n \in 0..MaxVariationsModel, h \in EngHistories,
                 c \in SeqToSet(variation_strategies)})

EngGenerate ==
    /\ Called("generate_variations")
    /\ generate_variations(response.args.base_prompt, response.args.num_variations,
                           response.args.theme_history, response.args.choices)

NextEngine == EngGenerate

SpecEngine == InitEngine /\ [][NextEngine]_vars

\* C14: for every base prompt, every num_variations >= 0 and every theme
\* history (absent, empty, without an entry rated >= 4, with entries that
\* carry no rating, with prompts without ##keyword), generate_variations
\* returns without raising exactly num_variations records, each with a
\* non-empty prompt and one of the five strategy names.
C14_VariationsNeverRaise ==
    [][response'.op = "generate_variations" =>
        /\ response'.status = "ok"
        /\ Len(response'.data) = response'.args.num_variations
        /\ \A i \in 1..Len(response'.data) :
              /\ response'.data[i].prompt # <<>>
              /\ response'.data[i].strategy \in SeqToSet(variation_strategies)]_vars

\* The failure of C14 is confined to two inputs: without a None rating in
\* the history the call returns num_variations records with known
\* strategies, and their prompts are non-empty when the base prompt is.
C14_VariationsWithoutNoneRating ==
    [][response'.op = "generate_variations" =>
        LET h == response'.args.theme_history
        IN (h.is_none \/ \A i \in 1..Len(h.entries) : ~CompareRaises(h.entries[i])) =>
             /\ response'.status = "ok"
             /\ Len(response'.data) = response'.args.num_variations
             /\ \A i \in 1..Len(response'.data) :
                   /\ response'.args.base_prompt # <<>> => response'.data[i].prompt # <<>>
                   /\ response'.data[i].strategy \in SeqToSet(variation_strategies)]_vars

\* ------------------------------------------------------------------------
\* core/keyword_extractor.py: extract_keywords on the characters of a prompt
\* ------------------------------------------------------------------------
\* Here a prompt is the sequence of its characters.
MaxPromptLen == 6

\* \w of the pattern r'##(\w+)': letters, digits and the underscore.
IsWordChar(c) == c \in {"a", "b", "1", "_"}

\* The pattern r'#(\w+)', which one hash mark satisfies.
KeywordAtOneHash(s, i) ==
    IF i + 1 <= Len(s) /\ s[i] = "#" /\ IsWordChar(s[i + 1]) THEN i + 1 ELSE 0

\* Where the group (\w+) starts when r'##(\w+)' matches at position i of s;
\* 0 when it does not match there.
KeywordAt(s, i) ==
    IF i + 2 <= Len(s) /\ s[i] = "#" /\ s[i + 1] = "#" /\ IsWordChar(s[i + 2])
    THEN i + 2 ELSE 0

\* \w+ is greedy: the last position of the run of word characters from j.
RECURSIVE WordRunEnd(_, _)
WordRunEnd(s, j) ==
    IF j + 1 <= Len(s) /\ IsWordChar(s[j + 1]) THEN WordRunEnd(s, j + 1) ELSE j

\* re.findall from position i on: the leftmost match, then the matches
\* after its end.
RECURSIVE FindAllFrom(_, _)
FindAllFrom(s, i) ==
    IF i > Len(s) THEN <<>>
    ELSE LET j == KeywordAt(s, i)
         IN IF j = 0 THEN FindAllFrom(s, i + 1)
            ELSE <<SubSeq(s, j, WordRunEnd(s, j))>> \o FindAllFrom(s, WordRunEnd(s, j) + 1)

\* KeywordExtractor.extract_keywords
extract_keywords_chars(prompt) ==
    /\ response' = Response("extract_keywords", [prompt |-> prompt], 0, "ok", NoneStr,
                            FindAllFrom(prompt, 1))
    /\ UNCHANGED <<store, gen>>

PromptChars == {"#", "a", "b", " "}

InitExtract ==
    InitCall({Call("extract_keywords", [prompt |-> s]) :
                 s \in SeqsUpTo(PromptChars, MaxPromptLen)})

ExtExtract == Called("extract_keywords") /\ extract_keywords_chars(response.args.prompt)

NextExtract == ExtExtract

SpecExtract == InitExtract /\ [][NextExtract]_vars

\* C15: extract_keywords(p) returns, from left to right and with duplicates
\* kept, exactly the runs of word characters that immediately follow '##';
\* a lone '#', or '##' followed by a space, gives nothing, and the result
\* is empty when there is no such run.
C15_ExtractKeywords ==
    [][response'.op = "extract_keywords" =>
        LET s == response'.args.prompt
            res == response'.data
            starts == {i \in 1..Len(s) :
                          /\ i + 2 <= Len(s)
                          /\ s[i] = "#" /\ s[i + 1] = "#"
                          /\ IsWordChar(s[i + 2])}
            nth(k) == CHOOSE i \in starts : Cardinality({h \in starts : h < i}) = k - 1
        IN /\ Len(res) = Cardinality(starts)
           /\ \A k \in 1..Len(res) :
                 \E e \in (nth(k) + 2)..Len(s) :
                    /\ res[k] = SubSeq(s, nth(k) + 2, e)
                    /\ \A h \in (nth(k) + 2)..e : IsWordChar(s[h])
                    /\ e = Len(s) \/ ~IsWordChar(s[e + 1])]_vars

C15_Witness ==
    /\ Returned("extract_keywords")
    /\ response.args.prompt = <<"#", "#", "a", "#", "#", "a">>
    /\ response.data = << <<"a">>, <<"a">> >>

\* ------------------------------------------------------------------------
\* core/keyword_extractor.py: the taxonomy and categorize_keywords
\* ------------------------------------------------------------------------
MaxKeywords == 3

\* KeywordExtractor.categories, in declaration order.
categories == <<
    [category |-> "structural",
     keywords |-> <<"grid", "radial", "fractal", "voronoi", "maze", "tessellated",
                    "lattice">>],
    [category |-> "organic",
     keywords |-> <<"cellular", "flowing", "growth", "branching", "veins", "natural",
                    "biological">>],
    [category |-> "textural",
     keywords |-> <<"rough", "smooth", "grainy", "sharp", "soft", "coarse", "fine",
                    "gritty">>],
    [category |-> "map_like",
     keywords |-> <<"topographic", "contour", "terrain", "elevation", "isoline",
                    "cartographic">>],
    [category |-> "geometric",
     keywords |-> <<"angular", "curved", "symmetrical", "tessellated", "polygonal",
                    "circular">>],
    [category |-> "visual",
     keywords |-> <<"bold", "subtle", "delicate", "strong", "gentle", "dramatic",
                    "minimalist">>] >>

\* str.lower(), on the keywords the calls below are made with.
Lower(keyword) ==
    CASE keyword = "Fractal" -> "fractal"
      [] keyword = "TESSELLATED" -> "tessellated"
      [] OTHER -> keyword

\* The categories, as indexes of the table, whose list holds the term.
CategoriesListing(term) ==
    {c \in 1..Len(categories) : term \in SeqToSet(categories[c].keywords)}

\* "for category, category_keywords in self.categories.items(): if ... break":
\* the first category in declaration order that lists the term, 0 if none.
FirstCategory(term) ==
    IF CategoriesListing(term) = {} THEN 0
    ELSE CHOOSE c \in CategoriesListing(term) : \A d \in CategoriesListing(term) : c <= d

\* KeywordExtractor._get_keyword_category
_get_keyword_category(keyword) ==
    IF FirstCategory(Lower(keyword)) = 0 THEN "uncategorized"
    ELSE categories[FirstCategory(Lower(keyword))].category

\* KeywordExtractor.categorize_keywords: every category with the keywords
\* put under it, in the order of the argument; "uncategorized" only when
\* some keyword matched no category.
Categorized(keywords) ==
    LET under(name) == SelectSeq(keywords, LAMBDA k : _get_keyword_category(k) = name)
        names == {categories[c].category : c \in 1..Len(categories)}
                    \cup (IF under("uncategorized") # <<>> THEN {"uncategorized"} ELSE {})
    IN [name \in names |-> under(name)]

categorize_keywords(keywords) ==
    /\ response' = Response("categorize_keywords", [keywords |-> keywords], 0, "ok",
                            NoneStr, Categorized(keywords))
    /\ UNCHANGED <<store, gen>>

CatKeywords == {"fractal", "Fractal", "tessellated", "TESSELLATED", "bold",
                "unknown_keyword"}

InitCategorize ==
    InitCall({Call("categorize_keywords", [keywords |-> k]) :
                 k \in SeqsUpTo(CatKeywords, MaxKeywords)})

CatCategorize ==
    Called("categorize_keywords") /\ categorize_keywords(response.args.keywords)

NextCategorize == CatCategorize

SpecCategorize == InitCategorize /\ [][NextCategorize]_vars

\* C16: in the Keyword Extractor's taxonomy no term is in the lists of two
\* categories, so the category under which categorize_keywords puts a
\* keyword does not depend on the order in which the categories are scanned:
\* it is the only category that lists the keyword.
C16_TaxonomyDisjoint ==
    [][response'.op = "categorize_keywords" =>
        \A i \in 1..Len(response'.args.keywords) :
           LET keyword == response'.args.keywords[i]
           IN \A c \in 1..Len(categories) :
                 Lower(keyword) \in SeqToSet(categories[c].keywords)
                    => keyword \in SeqToSet(response'.data[categories[c].category])]_vars

\* ------------------------------------------------------------------------
\* core/keyword_extractor.py: analyze_keyword_effectiveness
\* ------------------------------------------------------------------------
MaxKeywordRecords == 3

\* A record of keyword_data: 'keywords' and, when rating_key holds, a
\* 'rating' key whose value may be None (NoneVal).
KeywordRecord(keywords, rating_key, rating) ==
    [keywords |-> keywords, rating_key |-> rating_key, rating |-> rating]

\* The keywords of a list without their repetitions, in order.
RECURSIVE Distinct(_)
Distinct(s) ==
    IF s = <<>> THEN <<>>
    ELSE LET front == Distinct(SubSeq(s, 1, Len(s) - 1))
         IN IF s[Len(s)] \in SeqToSet(front) THEN front ELSE Append(front, s[Len(s)])

\* The pairs a loop would visit if it took each keyword of a record once.
RECURSIVE KeywordRatingPairsOncePerRecord(_)
KeywordRatingPairsOncePerRecord(keyword_data) ==
    IF keyword_data = <<>> THEN <<>>
    ELSE LET data == Head(keyword_data)
             keywords == Distinct(data.keywords)
         IN [j \in 1..Len(keywords) |->
                [keyword |-> keywords[j], rating |-> RatingGet(data)]]
            \o KeywordRatingPairsOncePerRecord(Tail(keyword_data))

\* "for data in keyword_data: ... for keyword in keywords": the pairs
\* (keyword, rating) in the order the loops visit them; rating is
\* data.get('rating', 0).
RECURSIVE KeywordRatingPairs(_)
KeywordRatingPairs(keyword_data) ==
    IF keyword_data = <<>> THEN <<>>
    ELSE LET data == Head(keyword_data)
         IN [j \in 1..Len(data.keywords) |->
                [keyword |-> data.keywords[j], rating |-> RatingGet(data)]]
            \o KeywordRatingPairs(Tail(keyword_data))

\* keyword_ratings: for every keyword, in the order of first insertion, the
\* list of the ratings appended to it.
KeywordRatings(pairs) ==
    LET order == Distinct([j \in 1..Len(pairs) |-> pairs[j].keyword])
    IN [n \in 1..Len(order) |->
           [keyword |-> order[n],
            ratings |-> LET mine == SelectSeq(pairs, LAMBDA p : p.keyword = order[n])
                        IN [j \in 1..Len(mine) |-> mine[j].rating]]]

\* The metrics of one keyword; averages and rates in hundredths.
KeywordMetrics(keyword, ratings) ==
    LET high_rated_count == Cardinality({j \in 1..Len(ratings) : ratings[j] >= 4})
    IN [keyword |-> keyword,
        average_rating |-> Round2(SumSeq(ratings), Len(ratings)),
        total_uses |-> Len(ratings),
        high_rated_count |-> high_rated_count,
        success_rate |-> Round2(high_rated_count, Len(ratings)),
        category |-> _get_keyword_category(keyword)]

\* sum(ratings) and r >= 4 raise TypeError on a rating that is None, once a
\* keyword carries it.
EffectivenessRaises(keyword_data) ==
    \E i \in 1..Len(keyword_data) :
        /\ keyword_data[i].keywords # <<>>
        /\ keyword_data[i].rating_key
        /\ keyword_data[i].rating = NoneVal

\* The dictionary "effectiveness", as the list of its items in order.
Effectiveness(keyword_data) ==
    LET keyword_ratings == KeywordRatings(KeywordRatingPairs(keyword_data))
    IN [n \in 1..Len(keyword_ratings) |->
           KeywordMetrics(keyword_ratings[n].keyword, keyword_ratings[n].ratings)]

\* KeywordExtractor.analyze_keyword_effectiveness
extractor_analyze_keyword_effectiveness(keyword_data) ==
    /\ response' =
         IF EffectivenessRaises(keyword_data)
         THEN Response("extractor_analyze_keyword_effectiveness",
                       [keyword_data |-> keyword_data], 0, "raised", "TypeError", <<>>)
         ELSE Response("extractor_analyze_keyword_effectiveness",
                       [keyword_data |-> keyword_data], 0, "ok", NoneStr,
                       Effectiveness(keyword_data))
    /\ UNCHANGED <<store, gen>>

EffRecords ==
    {KeywordRecord(k, TRUE, r) :
        k \in {<<>>, <<"fractal">>, <<"fractal", "fractal">>, <<"fractal", "grid">>},
        r \in {2, 5}}
      \cup {KeywordRecord(<<"fractal", "grid">>, FALSE, NoneVal),
            KeywordRecord(<<"grid">>, TRUE, NoneVal)}

InitEffectiveness ==
    InitCall({Call("extractor_analyze_keyword_effectiveness", [keyword_data |-> d]) :
                 d \in SeqsUpTo(EffRecords, MaxKeywordRecords)})

EffAnalyze ==
    /\ Called("extractor_analyze_keyword_effectiveness")
    /\ extractor_analyze_keyword_effectiveness(response.args.keyword_data)

NextEffectiveness == EffAnalyze

SpecEffectiveness == InitEffectiveness /\ [][NextEffectiveness]_vars

MaxSuggestions == 3

\* An item of effectiveness_data: a keyword and its data['success_rate'],
\* in hundredths.
EffItem(keyword, success_rate) == [keyword |-> keyword, success_rate |-> success_rate]

\* available_keywords.sort(key=lambda x: x[1], reverse=True): descending,
\* equal rates keep their order.
RECURSIVE SortByRateDesc(_)
SortByRateDesc(items) ==
    IF Len(items) <= 1 THEN items
    ELSE LET rest == SortByRateDesc(Tail(items))
             e == Head(items)
             n == Cardinality({j \in 1..Len(rest) : rest[j].success_rate > e.success_rate})
         IN SubSeq(rest, 1, n) \o <<e>> \o SubSeq(rest, n + 1, Len(rest))

\* The keywords not in current_keywords with success_rate > 0.5, best first.
AvailableKeywords(current_keywords, effectiveness_data) ==
    SortByRateDesc(SelectSeq(effectiveness_data,
        LAMBDA item : /\ item.keyword \notin SeqToSet(current_keywords)
                      /\ item.success_rate > 50))

\* s[:n]
Take(s, n) == SubSeq(s, 1, IF Len(s) < n THEN Len(s) ELSE n)

\* The categories of the current keywords.
CurrentCategories(current_keywords) ==
    {_get_keyword_category(current_keywords[i]) : i \in 1..Len(current_keywords)}

\* The keywords of the categories that are not in current_categories, in
\* the order the two loops visit them.
RECURSIVE CategoryCandidates(_, _)
CategoryCandidates(c, current_categories) ==
    IF c > Len(categories) THEN <<>>
    ELSE (IF categories[c].category \in current_categories THEN <<>>
          ELSE categories[c].keywords)
         \o CategoryCandidates(c + 1, current_categories)

\* The top-up without the test "keyword not in suggestions".
RECURSIVE TopUpNoSuggestedTest(_, _, _, _)
TopUpNoSuggestedTest(candidates, current_keywords, suggestions, num_suggestions) ==
    IF candidates = <<>> \/ Len(suggestions) >= num_suggestions THEN suggestions
    ELSE TopUpNoSuggestedTest(Tail(candidates), current_keywords,
             IF Head(candidates) \notin SeqToSet(current_keywords)
             THEN Append(suggestions, Head(candidates))
             ELSE suggestions,
             num_suggestions)

\* The loops that top the suggestions up, left once num_suggestions is
\* reached.
RECURSIVE TopUp(_, _, _, _)
TopUp(candidates, current_keywords, suggestions, num_suggestions) ==
    IF candidates = <<>> \/ Len(suggestions) >= num_suggestions THEN suggestions
    ELSE TopUp(Tail(candidates), current_keywords,
             IF /\ Head(candidates) \notin SeqToSet(current_keywords)
                /\ Head(candidates) \notin SeqToSet(suggestions)
             THEN Append(suggestions, Head(candidates))
             ELSE suggestions,
             num_suggestions)

Suggestions(current_keywords, effectiveness_data, num_suggestions) ==
    LET available_keywords == AvailableKeywords(current_keywords, effectiveness_data)
        top == Take(available_keywords, num_suggestions)
        suggestions == [j \in 1..Len(top) |-> top[j].keyword]
    IN IF Len(suggestions) < num_suggestions
       THEN Take(TopUp(CategoryCandidates(1, CurrentCategories(current_keywords)),
                       current_keywords, suggestions, num_suggestions),
                 num_suggestions)
       ELSE Take(suggestions, num_suggestions)

\* KeywordExtractor.suggest_keywords
suggest_keywords(current_keywords, effectiveness_data, num_suggestions) ==
    /\ response' = Response("suggest_keywords",
                            [current_keywords |-> current_keywords,
                             effectiveness_data |-> effectiveness_data,
                             num_suggestions |-> num_suggestions],
                            0, "ok", NoneStr,
                            Suggestions(current_keywords, effectiveness_data,
                                        num_suggestions))
    /\ UNCHANGED <<store, gen>>

SugCurrent == SeqsUpTo({"fractal", "flowing", "rough", "contour"}, MaxKeywords)
\* The items of a dictionary: no keyword twice.
SugEffectiveness ==
    {e \in SeqsUpTo({EffItem(k, r) : k \in {"flowing", "grid", "tessellated"},
                                    r \in {20, 80}}, 2) :
        \A i, j \in 1..Len(e) : i # j => e[i].keyword # e[j].keyword}
\* 12 suggestions reach the second list that holds "tessellated".
SugCounts == (0..MaxSuggestions) \cup {12}

InitSuggest ==
    InitCall({Call("suggest_keywords",
                   [current_keywords |-> c, effectiveness_data |-> e,
                    num_suggestions |-> n]) :
                 c \in SugCurrent, e \in SugEffectiveness, n \in SugCounts})

SugSuggest ==
    /\ Called("suggest_keywords")
    /\ suggest_keywords(response.args.current_keywords, response.args.effectiveness_data,
                        response.args.num_suggestions)

NextSuggest == SugSuggest

SpecSuggest == InitSuggest /\ [][NextSuggest]_vars

\* C18: for every num_suggestions >= 0, suggest_keywords returns at most
\* num_suggestions keywords, none of them in current_keywords and none of
\* them twice.
C18_SuggestionsBounded ==
    [][response'.op = "suggest_keywords" =>
        LET res == response'.data
        IN /\ Len(res) <= response'.args.num_suggestions
           /\ \A n \in 1..Len(res) : res[n] \notin SeqToSet(response'.args.current_keywords)
           /\ \A n, m \in 1..Len(res) : n # m => res[n] # res[m]]_vars

C18_Witness ==
    /\ Returned("suggest_keywords")
    /\ response.args.current_keywords = <<"flowing", "rough", "contour">>
    /\ response.args.num_suggestions = 12
    /\ Len(response.data) = 12
    /\ response.data[1] = "grid"
    /\ response.data[2] = "tessellated"
    /\ response.data[12] = "circular"

\* C19: suggest_keywords never returns a keyword whose success_rate in
\* effectiveness_data is at most 0.5.
C19_NoLowRateSuggestion ==
    [][response'.op = "suggest_keywords" =>
        \A n \in 1..Len(response'.data) :
           \A i \in 1..Len(response'.args.effectiveness_data) :
              response'.args.effectiveness_data[i].keyword = response'.data[n]
                 => response'.args.effectiveness_data[i].success_rate > 50]_vars

\* ------------------------------------------------------------------------
\* core/rating_analyzer.py: analyze_keyword_effectiveness
\* ------------------------------------------------------------------------
\* The collection loop without the test "if rating is not None".
RECURSIVE KeywordStatsPairsUnfiltered(_)
KeywordStatsPairsUnfiltered(image_data) ==
    IF image_data = <<>> THEN <<>>
    ELSE LET item == Head(image_data)
         IN [j \in 1..Len(item.keywords) |->
                [keyword |-> item.keywords[j], rating |-> item.rating]]
            \o KeywordStatsPairsUnfiltered(Tail(image_data))

\* "for item in image_data: ... if rating is not None: for keyword in
\* keywords: keyword_stats[keyword].append(rating)": the pairs appended, in
\* order.
RECURSIVE KeywordStatsPairs(_)
KeywordStatsPairs(image_data) ==
    IF image_data = <<>> THEN <<>>
    ELSE LET item == Head(image_data)
         IN (IF item.rating # NoneVal
             THEN [j \in 1..Len(item.keywords) |->
                      [keyword |-> item.keywords[j], rating |-> item.rating]]
             ELSE <<>>)
            \o KeywordStatsPairs(Tail(image_data))

\* RatingAnalyzer._calculate_confidence; success_rate is high / sample_size,
\* unrounded.
_calculate_confidence(sample_size, high) ==
    IF /\ sample_size >= MIN_DATA_SIZE_FOR_HIGH_CONFIDENCE
       /\ 100 * high > HIGH_SUCCESS_RATE_THRESHOLD * sample_size
    THEN "high"
    ELSE IF /\ sample_size >= MIN_DATA_SIZE_FOR_MEDIUM_CONFIDENCE
            /\ 100 * high > MEDIUM_SUCCESS_RATE_THRESHOLD * sample_size
    THEN "medium"
    ELSE "low"

\* The entry of one keyword of keyword_stats.
AnalyzerMetrics(keyword, ratings) ==
    [keyword |-> keyword,
     total_uses |-> Len(ratings),
     average_rating |-> Round2(SumSeq(ratings), Len(ratings)),
     high_rated_count |-> HighRatedCount(ratings),
     success_rate |-> Round2(HighRatedCount(ratings), Len(ratings)),
     confidence |-> _calculate_confidence(Len(ratings), HighRatedCount(ratings))]

\* The dictionary "effectiveness": the keywords of keyword_stats with at
\* least MIN_SAMPLES_FOR_ANALYSIS ratings, in the order of keyword_stats.
AnalyzerEffectiveness(image_data) ==
    LET keyword_stats == KeywordRatings(KeywordStatsPairs(image_data))
        enough == SelectSeq(keyword_stats,
                            LAMBDA s : Len(s.ratings) >= MIN_SAMPLES_FOR_ANALYSIS)
    IN [n \in 1..Len(enough) |-> AnalyzerMetrics(enough[n].keyword, enough[n].ratings)]

\* sorted(...) without reverse=True: ascending.
RECURSIVE SortByEffectivenessAscending(_)
SortByEffectivenessAscending(items) ==
    IF Len(items) <= 1 THEN items
    ELSE LET rest == SortByEffectivenessAscending(Tail(items))
             e == Head(items)
             below(x) == \/ x.success_rate < e.success_rate
                         \/ /\ x.success_rate = e.success_rate
                            /\ x.average_rating < e.average_rating
             n == Cardinality({j \in 1..Len(rest) : below(rest[j])})
         IN SubSeq(rest, 1, n) \o <<e>> \o SubSeq(rest, n + 1, Len(rest))

\* sorted(..., key=(success_rate, average_rating), reverse=True): equal keys
\* keep their order.
RECURSIVE SortByEffectiveness(_)
SortByEffectiveness(items) ==
    IF Len(items) <= 1 THEN items
    ELSE LET rest == SortByEffectiveness(Tail(items))
             e == Head(items)
             above(x) == \/ x.success_rate > e.success_rate
                         \/ /\ x.success_rate = e.success_rate
                            /\ x.average_rating > e.average_rating
             n == Cardinality({j \in 1..Len(rest) : above(rest[j])})
         IN SubSeq(rest, 1, n) \o <<e>> \o SubSeq(rest, n + 1, Len(rest))

\* RatingAnalyzer._assess_analysis_quality
_assess_analysis_quality(effectiveness) ==
    LET high_confidence_count ==
            Cardinality({n \in 1..Len(effectiveness) : effectiveness[n].confidence = "high"})
    IN IF effectiveness = <<>> THEN "no_data"
       ELSE IF high_confidence_count >= 3 THEN "high"
       ELSE IF high_confidence_count >= 1 THEN "medium"
       ELSE "low"

KeywordAnalysis(image_data) ==
    LET effectiveness == AnalyzerEffectiveness(image_data)
        sorted_keywords == SortByEffectiveness(effectiveness)
        top == SelectSeq(Take(sorted_keywords, 5), LAMBDA e : e.success_rate > 50)
        under == SelectSeq(sorted_keywords, LAMBDA e : e.success_rate < 30)
    IN [keyword_effectiveness |-> sorted_keywords,
        top_performers |-> [n \in 1..Len(top) |-> top[n].keyword],
        underperformers |-> [n \in 1..Len(under) |-> under[n].keyword],
        analysis_quality |-> _assess_analysis_quality(effectiveness)]

\* RatingAnalyzer.analyze_keyword_effectiveness
analyze_keyword_effectiveness(image_data) ==
    /\ response' = Response("analyze_keyword_effectiveness",
                            [image_data |-> image_data], 0, "ok", NoneStr,
                            KeywordAnalysis(image_data))
    /\ UNCHANGED <<store, gen>>

KwaKeywords == {"fractal", "grid"}
KwaRecords ==
    {Record(r, 1, k) :
        r \in {NoneVal, 2, 5},
        k \in {<<"fractal">>, <<"fractal", "fractal">>, <<"fractal", "grid">>, <<"grid">>}}

InitKeywordAnalysis ==
    InitCall({Call("analyze_keyword_effectiveness", [image_data |-> d]) :
                 d \in SeqsUpTo(KwaRecords, MaxKeywordRecords)})

KwaAnalyze ==
    /\ Called("analyze_keyword_effectiveness")
    /\ analyze_keyword_effectiveness(response.args.image_data)

NextKeywordAnalysis == KwaAnalyze

SpecKeywordAnalysis == InitKeywordAnalysis /\ [][NextKeywordAnalysis]_vars

\* C20: in RatingAnalyzer.analyze_keyword_effectiveness a keyword is in
\* keyword_effectiveness if and only if at least 3 records that carry a
\* rating contain it; records without a rating give no sample, and a
\* keyword with fewer rated samples is left out without an error.
C20_ThreeRatedRecords ==
    [][response'.op = "analyze_keyword_effectiveness" =>
        LET d == response'.args.image_data
            res == response'.data.keyword_effectiveness
            holding(k) == {i \in 1..Len(d) :
                              d[i].rating # NoneVal /\ k \in SeqToSet(d[i].keywords)}
        IN /\ response'.status = "ok"
           /\ \A k \in KwaKeywords :
                 (\E n \in 1..Len(res) : res[n].keyword = k)
                    <=> Cardinality(holding(k)) >= 3]_vars

\* C20, amended: a keyword is in keyword_effectiveness if and only if it
\* occurs at least 3 times in the keywords of the records that carry a
\* rating, a record that lists it twice giving two samples; total_uses is
\* that number; records without a rating give no sample, and a keyword with
\* fewer samples is left out without an error.
C20_ThreeRatedSamples ==
    [][response'.op = "analyze_keyword_effectiveness" =>
        LET d == response'.args.image_data
            res == response'.data.keyword_effectiveness
            samples(k) == {<<i, j>> \in (1..Len(d)) \X (1..2) :
                              /\ d[i].rating # NoneVal
                              /\ j <= Len(d[i].keywords)
                              /\ d[i].keywords[j] = k}
        IN /\ response'.status = "ok"
           /\ \A n, m \in 1..Len(res) : n # m => res[n].keyword # res[m].keyword
           /\ \A n \in 1..Len(res) : res[n].keyword \in KwaKeywords
           /\ \A k \in KwaKeywords :
                 /\ (\E n \in 1..Len(res) : res[n].keyword = k)
                       <=> Cardinality(samples(k)) >= 3
                 /\ \A n \in 1..Len(res) :
                       res[n].keyword = k => res[n].total_uses = Cardinality(samples(k))]_vars

C20_Witness ==
    /\ Returned("analyze_keyword_effectiveness")
    /\ response.args.image_data =
          <<Record(5, 1, <<"fractal", "fractal">>), Record(NoneVal, 1, <<"fractal", "grid">>),
            Record(2, 1, <<"fractal", "grid">>)>>
    /\ Len(response.data.keyword_effectiveness) = 1
    /\ response.data.keyword_effectiveness[1].keyword = "fractal"
    /\ response.data.keyword_effectiveness[1].total_uses = 3

\* ------------------------------------------------------------------------
\* core/rating_analyzer.py: top_performers and underperformers
\* ------------------------------------------------------------------------
MaxTopKeywords == 7

\* Names for the keywords of the calls below.
TopKeywordNames == categories[1].keywords \o categories[2].keywords

\* The rated records of one keyword; each lists the keyword three times, so
\* one record gives MIN_SAMPLES_FOR_ANALYSIS samples.
\*   "all5":  success_rate 1.0, average_rating 5.0
\*   "all4":  success_rate 1.0, average_rating 4.0
\*   "half":  success_rate 0.5, average_rating 3.5
\*   "all2":  success_rate 0.0, average_rating 2.0
TopProfiles == {"all5", "all4", "half", "all2"}
TopRecordsOf(keyword, profile) ==
    CASE profile = "all5" -> <<Record(5, 1, <<keyword, keyword, keyword>>)>>
      [] profile = "all4" -> <<Record(4, 1, <<keyword, keyword, keyword>>)>>
      [] profile = "half" -> <<Record(5, 1, <<keyword, keyword, keyword>>),
                               Record(2, 1, <<keyword, keyword, keyword>>)>>
      [] OTHER -> <<Record(2, 1, <<keyword, keyword, keyword>>)>>

RECURSIVE TopImageData(_, _)
TopImageData(profiles, n) ==
    IF n > Len(profiles) THEN <<>>
    ELSE TopRecordsOf(TopKeywordNames[n], profiles[n]) \o TopImageData(profiles, n + 1)

InitTopPerformers ==
    InitCall({Call("analyze_keyword_effectiveness",
                   [image_data |-> TopImageData(p, 1)]) :
                 p \in SeqsUpTo(TopProfiles, MaxTopKeywords)})

NextTopPerformers == KwaAnalyze

SpecTopPerformers == InitTopPerformers /\ [][NextTopPerformers]_vars

\* C21: in the result of RatingAnalyzer.analyze_keyword_effectiveness,
\* top_performers holds at most 5 qualifying keywords, each with
\* success_rate > 0.5, and no qualifying keyword left out of it ranks
\* strictly higher by (success_rate, average_rating) than one included;
\* underperformers is exactly the set of qualifying keywords with
\* success_rate < 0.3; the two lists are disjoint.
C21_TopAndUnderPerformers ==
    [][response'.op = "analyze_keyword_effectiveness" =>
        LET eff == response'.data.keyword_effectiveness
            top == response'.data.top_performers
            under == response'.data.underperformers
            entry(k) == CHOOSE e \in SeqToSet(eff) : e.keyword = k
            higher(a, b) == \/ a.success_rate > b.success_rate
                            \/ /\ a.success_rate = b.success_rate
                               /\ a.average_rating > b.average_rating
        IN /\ Len(top) <= 5
           /\ \A n, m \in 1..Len(top) : n # m => top[n] # top[m]
           /\ \A n \in 1..Len(top) :
                 /\ \E e \in SeqToSet(eff) : e.keyword = top[n]
                 /\ entry(top[n]).success_rate > 50
           /\ \A e \in SeqToSet(eff) :
                 e.keyword \notin SeqToSet(top) =>
                    \A n \in 1..Len(top) : ~higher(e, entry(top[n]))
           /\ \A n, m \in 1..Len(under) : n # m => under[n] # under[m]
           /\ SeqToSet(under) = {e.keyword : e \in {x \in SeqToSet(eff) : x.success_rate < 30}}
           /\ SeqToSet(top) \cap SeqToSet(under) = {}]_vars

C21_Witness ==
    /\ Returned("analyze_keyword_effectiveness")
    /\ Len(response.data.keyword_effectiveness) = 7
    /\ Len(response.data.top_performers) = 5
    /\ Len(response.data.underperformers) = 1
    /\ \E e \in SeqToSet(response.data.keyword_effectiveness) :
          /\ e.success_rate > 50
          /\ e.keyword \notin SeqToSet(response.data.top_performers)

\* ------------------------------------------------------------------------
\* core/rating_analyzer.py: suggest_prompt_improvements
\* ------------------------------------------------------------------------
\* Here current_prompt is the sequence of its characters and a keyword the
\* sequence of its characters, as re.findall(KEYWORD_PATTERN, prompt)
\* returns it.
MaxPerformers == 2

\* RatingAnalyzer._extract_keywords_from_prompt
_extract_keywords_from_prompt(prompt) == FindAllFrom(prompt, 1)

\* The additions without the test "keyword not in current_keywords".
AddKeywordsUnfiltered(top_performers, current_keywords) ==
    [n \in 1..Len(top_performers) |->
        [keyword |-> top_performers[n],
         reason |-> "High success rate in theme history"]]

\* "for keyword in top_performers: if keyword not in current_keywords"
AddKeywords(top_performers, current_keywords) ==
    LET kept == SelectSeq(top_performers,
                          LAMBDA k : k \notin SeqToSet(current_keywords))
    IN [n \in 1..Len(kept) |->
           [keyword |-> kept[n], reason |-> "High success rate in theme history"]]

\* "for keyword in underperformers: if keyword in current_keywords"
RemoveKeywords(underperformers, current_keywords) ==
    LET kept == SelectSeq(underperformers,
                          LAMBDA k : k \in SeqToSet(current_keywords))
    IN [n \in 1..Len(kept) |->
           [keyword |-> kept[n], reason |-> "Low success rate in theme history"]]

\* theme_performance.get('performance_level', 'unknown')
PerformanceLevelOf(theme_data) ==
    LET theme_performance == ThemePerformance(theme_data)
    IN IF "performance_level" \in DOMAIN theme_performance
       THEN theme_performance.performance_level
       ELSE "unknown"

ModifyApproach(performance_level) ==
    IF performance_level = "poor"
    THEN <<[suggestion |-> "Consider more dramatic changes to prompt structure",
            reason |-> "Theme has low success rate"]>>
    ELSE IF performance_level = "good"
    THEN <<[suggestion |-> "Fine-tune existing successful patterns",
            reason |-> "Theme is performing well, refine rather than overhaul"]>>
    ELSE <<>>

\* RatingAnalyzer._assess_suggestion_confidence
_assess_suggestion_confidence(data_size, analysis_quality) ==
    IF data_size >= 20 /\ analysis_quality = "high" THEN "high"
    ELSE IF data_size >= 10 /\ analysis_quality \in {"high", "medium"} THEN "medium"
    ELSE "low"

\* keyword_effectiveness is the dictionary of analyze_keyword_effectiveness;
\* only top_performers, underperformers and analysis_quality are read.
PromptImprovements(current_prompt, theme_data, keyword_effectiveness) ==
    LET current_keywords == _extract_keywords_from_prompt(current_prompt)
    IN [add_keywords |-> AddKeywords(keyword_effectiveness.top_performers,
                                     current_keywords),
        remove_keywords |-> RemoveKeywords(keyword_effectiveness.underperformers,
                                           current_keywords),
        modify_approach |-> ModifyApproach(PerformanceLevelOf(theme_data)),
        confidence |-> _assess_suggestion_confidence(
                           Len(theme_data), keyword_effectiveness.analysis_quality)]

\* RatingAnalyzer.suggest_prompt_improvements
suggest_prompt_improvements(current_prompt, theme_data, keyword_effectiveness) ==
    /\ response' = Response("suggest_prompt_improvements",
                            [current_prompt |-> current_prompt,
                             theme_data |-> theme_data,
                             keyword_effectiveness |-> keyword_effectiveness],
                            0, "ok", NoneStr,
                            PromptImprovements(current_prompt, theme_data,
                                               keyword_effectiveness))
    /\ UNCHANGED <<store, gen>>

ImpKeywords == {<<"a">>, <<"b">>, <<"a", "b">>}
ImpPrompts == {<<>>,
               <<"#", "a">>,
               <<"#", "#", "a">>,
               <<"#", "#", "a", "b">>,
               <<"#", "#", "a", " ", "#", "#", "b">>}
\* n records with the same rating.
Repeated(n, rating) == [i \in 1..n |-> Record(rating, 1, <<>>)]
\* Theme records with the analysis_quality passed along with them: no
\* record, no rating, the levels poor, fair, good and excellent, and the
\* sizes 10 and 20 of the confidence tiers.
ImpThemes ==
    {[theme_data |-> <<>>, analysis_quality |-> "no_data"],
     [theme_data |-> Repeated(2, NoneVal), analysis_quality |-> "low"],
     [theme_data |-> Repeated(1, 2), analysis_quality |-> "high"],
     [theme_data |-> Repeated(1, 5) \o Repeated(2, 2), analysis_quality |-> "medium"],
     [theme_data |-> Repeated(1, 5) \o Repeated(1, 2), analysis_quality |-> "low"],
     [theme_data |-> Repeated(1, 5), analysis_quality |-> "high"],
     [theme_data |-> Repeated(10, 2), analysis_quality |-> "medium"],
     [theme_data |-> Repeated(20, 5), analysis_quality |-> "high"]}

InitImprove ==
    InitCall({Call("suggest_prompt_improvements",
                   [current_prompt |-> p, theme_data |-> t.theme_data,
                    keyword_effectiveness |->
                        [top_performers |-> top, underperformers |-> under,
                         analysis_quality |-> t.analysis_quality]]) :
                 p \in ImpPrompts, t \in ImpThemes,
                 top \in SeqsUpTo(ImpKeywords, MaxPerformers),
                 under \in SeqsUpTo(ImpKeywords, MaxPerformers)})

ImpSuggest ==
    /\ Called("suggest_prompt_improvements")
    /\ suggest_prompt_improvements(response.args.current_prompt,
                                   response.args.theme_data,
                                   response.args.keyword_effectiveness)

NextImprove == ImpSuggest

SpecImprove == InitImprove /\ [][NextImprove]_vars

\* C22: suggest_prompt_improvements puts into add_keywords exactly the
\* top_performers that are not ##-tagged in current_prompt and into
\* remove_keywords exactly the underperformers that are ##-tagged in
\* current_prompt, so that no keyword is suggested both for addition and
\* for removal; it returns a result, with empty modify_approach, also when
\* theme_records is empty or carries no rating.
C22_PromptImprovements ==
    [][response'.op = "suggest_prompt_improvements" =>
        LET s == response'.args.current_prompt
            top == response'.args.keyword_effectiveness.top_performers
            under == response'.args.keyword_effectiveness.underperformers
            d == response'.args.theme_data
            res == response'.data
            \* k is ##-tagged in s: "##" k occurs in s and no word character follows.
            tagged(k) ==
                \E i \in 1..Len(s) :
                   /\ i + 1 + Len(k) <= Len(s)
                   /\ s[i] = "#" /\ s[i + 1] = "#"
                   /\ SubSeq(s, i + 2, i + 1 + Len(k)) = k
                   /\ i + 1 + Len(k) = Len(s) \/ ~IsWordChar(s[i + 2 + Len(k)])
            added == [n \in 1..Len(res.add_keywords) |-> res.add_keywords[n].keyword]
            removed == [n \in 1..Len(res.remove_keywords) |-> res.remove_keywords[n].keyword]
        IN /\ response'.status = "ok"
           /\ added = SelectSeq(top, LAMBDA k : ~tagged(k))
           /\ removed = SelectSeq(under, LAMBDA k : tagged(k))
           /\ SeqToSet(added) \cap SeqToSet(removed) = {}
           /\ (d = <<>> \/ \A i \in 1..Len(d) : d[i].rating = NoneVal)
                 => res.modify_approach = <<>>]_vars

C22_Witness ==
    /\ Returned("suggest_prompt_improvements")
    /\ response.args.current_prompt = <<"#", "#", "a", "b">>
    /\ response.args.keyword_effectiveness.top_performers = << <<"a">>, <<"a", "b">> >>
    /\ response.args.keyword_effectiveness.underperformers = << <<"a", "b">>, <<"a">> >>
    /\ response.args.theme_data = Repeated(2, NoneVal)
    /\ Len(response.data.add_keywords) = 1
    /\ response.data.add_keywords[1].keyword = <<"a">>
    /\ Len(response.data.remove_keywords) = 1
    /\ response.data.remove_keywords[1].keyword = <<"a", "b">>
    /\ response.data.modify_approach = <<>>

MaxSubKeywords == 3

\* "pattern ##k1 ##k2 ...": the prompt that tags the given words in order.
RECURSIVE SubPrompt(_)
SubPrompt(words) ==
    IF words = <<>> THEN <<Plain("pattern")>>
    ELSE SubPrompt(SubSeq(words, 1, Len(words) - 1))
            \o <<Plain(" "), Tag(words[Len(words)])>>

\* One call of _keyword_substitution; the outcome is any one the random
\* replacements allow.
keyword_substitution(prompt, keywords, index) ==
    /\ \E variation \in _keyword_substitution(prompt, keywords, index) :
          response' = Response("_keyword_substitution",
                               [prompt |-> prompt, keywords |-> keywords,
                                index |-> index],
                               0, "ok", NoneStr, variation)
    /\ UNCHANGED <<store, gen>>

\* Tagged words: two of one category, a word that only begins like one of
\* them, a word of two categories, a word of another category and a word
\* of no category.
SubWords == {"grid", "radial", "gridlock", "tessellated", "smooth", "mossy"}

\* The keywords of the call are those of the prompt, as
\* _apply_variation_strategy passes them, or none at all.
InitSubstitution ==
    InitCall({Call("_keyword_substitution",
                   [prompt |-> SubPrompt(words),
                    keywords |-> IF given THEN extract_keywords(SubPrompt(words))
                                 ELSE <<>>,
                    index |-> 1]) :
                 words \in SeqsUpTo(SubWords, MaxSubKeywords),
                 given \in BOOLEAN})

SubSubstitute ==
    /\ Called("_keyword_substitution")
    /\ keyword_substitution(response.args.prompt, response.args.keywords,
                            response.args.index)

NextSubstitution == SubSubstitute

SpecSubstitution == InitSubstitution /\ [][NextSubstitution]_vars

\* The change "##old -> ##new" as the changes list holds it.
Change(old, new) == <<Tag(old), Plain(" -> "), Tag(new)>>

\* C24: keyword_substitution looks only at the first two current keywords:
\* each of them that belongs to a taxonomy category with at least 2 members
\* is replaced, wherever ##old occurs in the prompt, by a different member
\* of the same category, and the substitution is recorded in changes; a
\* keyword with no category is left untouched; with no keywords the prompt
\* is returned unchanged with empty changes.
C24_KeywordSubstitution ==
    [][response'.op = "_keyword_substitution" =>
        LET prompt == response'.args.prompt
            keywords == response'.args.keywords
            result == response'.data
            first_two == {keywords[k] : k \in {k \in 1..Len(keywords) : k <= 2}}
            members(c) == SeqToSet(keyword_categories[c].keywords)
        IN /\ result.strategy = "keyword_substitution"
           /\ Len(result.prompt) = Len(prompt)
           /\ keywords = <<>> => result.prompt = prompt /\ result.changes = <<>>
           /\ \A i \in 1..Len(prompt) :
                 LET old == prompt[i].w
                     new == result.prompt[i].w
                     category == _find_keyword_category(old)
                 IN IF prompt[i].tagged /\ old \in first_two
                       /\ category # NoneVal /\ Cardinality(members(category)) >= 2
                    THEN /\ result.prompt[i].tagged
                         /\ new # old
                         /\ new \in members(category)
                         /\ Change(old, new) \in SeqToSet(result.changes)
                    ELSE result.prompt[i] = prompt[i]
           /\ \A n \in 1..Len(result.changes) :
                 result.changes[n][1].w \in first_two]_vars

\* ------------------------------------------------------------------------
\* core/prompt_engine.py: _keyword_combination on its own
\* ------------------------------------------------------------------------
MaxSuccessfulKeywords == 4
MaxCombinationIndex == 3

\* One call of _keyword_combination.
keyword_combination(prompt, patterns, index) ==
    /\ response' = Response("_keyword_combination",
                            [prompt |-> prompt, patterns |-> patterns, index |-> index],
                            0, "ok", NoneStr,
                            _keyword_combination(prompt, patterns, index))
    /\ UNCHANGED <<store, gen>>

\* keyword_counts of _analyze_successful_patterns: every keyword once, in
\* the order of its first appearance, with a count of at least 1.
CombKeywords == {"grid", "flowing", "rough", "maze"}
CombCounts ==
    {s \in SeqsUpTo([keyword : CombKeywords, count : 1..2], MaxSuccessfulKeywords) :
        \A i, j \in 1..Len(s) : i # j => s[i].keyword # s[j].keyword}

\* The patterns of a history with high-rated entries, and {} as well when
\* no keyword was counted.
CombPatterns ==
    {[successful_keywords |-> s, high_rated_count |-> 1, total_count |-> 2] :
        s \in CombCounts} \cup {EmptyPatterns}

InitCombination ==
    InitCall({Call("_keyword_combination",
                   [prompt |-> p, patterns |-> pat, index |-> i]) :
                 p \in {P1, P2}, pat \in CombPatterns, i \in 0..MaxCombinationIndex})

CombCombine ==
    /\ Called("_keyword_combination")
    /\ keyword_combination(response.args.prompt, response.args.patterns,
                           response.args.index)

NextCombination == CombCombine

SpecCombination == InitCombination /\ [][NextCombination]_vars

\* C25: with at least one successful keyword, keyword_combination at index
\* i returns the base prompt followed by exactly ", ##k", where k is
\* element (i mod m) of the m = min(3, number of successful keywords) most
\* frequent successful keywords in descending order of frequency (equal
\* frequencies in the order of first appearance), so that index 0 appends
\* the most frequent one; with no successful keywords it returns the
\* descriptor_addition result for index i.
C25_KeywordCombination ==
    [][response'.op = "_keyword_combination" =>
        LET prompt == response'.args.prompt
            counts == response'.args.patterns.successful_keywords
            i == response'.args.index
            result == response'.data
            m == IF Len(counts) < 3 THEN Len(counts) ELSE 3
            \* how many successful keywords come before the j-th one
            rank(j) == Cardinality({n \in 1..Len(counts) :
                          \/ counts[n].count > counts[j].count
                          \/ counts[n].count = counts[j].count /\ n < j})
        IN IF counts = <<>>
           THEN result = _descriptor_addition(prompt, i)
           ELSE \E j \in 1..Len(counts) :
                   /\ rank(j) = i % m
                   /\ i = 0 => \A n \in 1..Len(counts) : counts[n].count <= counts[j].count
                   /\ result.prompt = prompt \o <<Plain(", "), Tag(counts[j].keyword)>>
                   /\ result.strategy = "keyword_combination"
                   /\ result.changes = <<Plain("Added successful keyword: "),
                                         Tag(counts[j].keyword)>>]_vars

C25_Witness ==
    /\ Returned("_keyword_combination")
    /\ response.args.prompt = P1
    /\ response.args.index = 2
    /\ response.args.patterns.successful_keywords =
          <<[keyword |-> "grid", count |-> 1], [keyword |-> "flowing", count |-> 2],
            [keyword |-> "rough", count |-> 1], [keyword |-> "maze", count |-> 2]>>
    /\ response.data.prompt = P1 \o <<Plain(", "), Tag("grid")>>

\* ------------------------------------------------------------------------
\* core/rating_analyzer.py: the trend of analyze_theme_performance
\* ------------------------------------------------------------------------
MaxTrendRecords == 6

\* created_at of the i-th of n records: in the order of the list, in the
\* reverse order, or two stamps taking turns.
TrendOrders == {"ascending", "descending", "tied"}
CreatedAt(order, i, n) ==
    IF order = "ascending" THEN i
    ELSE IF order = "descending" THEN n + 1 - i
    ELSE 2 - (i % 2)

\* Records with integer ratings, as the images table stores them, or none.
TrendRatings == {NoneVal, 2, 3}
TrendData(ratings, order) ==
    [i \in 1..Len(ratings) |-> Record(ratings[i], CreatedAt(order, i, Len(ratings)), <<>>)]

InitTrend ==
    InitCall({Call("analyze_theme_performance", [theme_data |-> TrendData(r, o)]) :
                 r \in SeqsUpTo(TrendRatings, MaxTrendRecords), o \in TrendOrders})

NextTrend == PerfAnalyze

SpecTrend == InitTrend /\ [][NextTrend]_vars

MaxHighRated == 16
MaxLowRated == 7

\* Theme records: some rated high, then some rated low, one stamp each.
LevelData(high, high_rating, low, low_rating) ==
    [i \in 1..(high + low) |->
        Record(IF i <= high THEN high_rating ELSE low_rating, i, <<>>)]

InitLevel ==
    InitCall({Call("analyze_theme_performance",
                   [theme_data |-> LevelData(high, hr, low, lr)]) :
                 high \in 0..MaxHighRated, hr \in {4, 5},
                 low \in 0..MaxLowRated, lr \in {1, 3}})

NextLevel == PerfAnalyze

SpecLevel == InitLevel /\ [][NextLevel]_vars

\* C27: the performance_level in the result of analyze_theme_performance
\* agrees with the success_rate and the average_rating reported in the same
\* result: excellent iff success_rate >= 0.7 and average_rating >= 4.0;
\* otherwise good iff success_rate >= 0.5 and average_rating >= 3.5;
\* otherwise fair iff success_rate >= 0.3 and average_rating >= 3.0;
\* otherwise poor.
C27_LevelAgreesWithReported ==
    [][(response'.op = "analyze_theme_performance" /\ response'.status = "ok") =>
        LET success_rate == response'.data.success_rate
            average_rating == response'.data.average_rating
        IN response'.data.performance_level =
              IF success_rate >= EXCELLENT_SUCCESS_RATE
                 /\ average_rating >= EXCELLENT_AVG_RATING THEN "excellent"
              ELSE IF success_rate >= GOOD_SUCCESS_RATE
                      /\ average_rating >= GOOD_AVG_RATING THEN "good"
              ELSE IF success_rate >= FAIR_SUCCESS_RATE
                      /\ average_rating >= FAIR_AVG_RATING THEN "fair"
              ELSE "poor"]_vars

\* C28: the changes list returned by keyword_substitution describes the
\* returned prompt: for every recorded change "##old -> ##new" the returned
\* prompt contains ##new, for every base prompt and every random choice of
\* replacements, also when the replacement of the first keyword equals the
\* second keyword.
C28_ChangesDescribePrompt ==
    [][response'.op = "_keyword_substitution" =>
        LET result == response'.data
        IN \A n \in 1..Len(result.changes) :
              LET new == result.changes[n][3].w
              IN \E i \in 1..Len(result.prompt) :
                    result.prompt[i].tagged /\ StartsWith(result.prompt[i].w, new)]_vars

\* ------------------------------------------------------------------------
\* api/generate.py: the request that stores no image
\* ------------------------------------------------------------------------
\* C29: a generation request that ends in the error "Failed to generate any
\* images" leaves the store as it was before the request: no Generation
\* record of that request remains, so that every persisted Generation whose
\* request has completed owns at least one Image when the request returns.
C29_FailedRequestLeavesNoGeneration ==
    [][CollectStep =>
        /\ response'.error = "Failed to generate any images" =>
              /\ gen.generation_id \notin DOMAIN generations'
              /\ images' = images
        /\ gen.generation_id \in DOMAIN generations' =>
              \E i \in DOMAIN images' :
                 images'[i].generation_id = gen.generation_id]_vars

\* ------------------------------------------------------------------------
\* core/prompt_engine.py and core/keyword_extractor.py: the two taxonomies
\* ------------------------------------------------------------------------
\* One call of PromptEngine._find_keyword_category: the name of the
\* category, None when the keyword is in no list.
find_keyword_category(keyword) ==
    /\ response' = Response("_find_keyword_category", [keyword |-> keyword], 0, "ok",
                            NoneStr,
                            IF _find_keyword_category(keyword) = NoneVal THEN NoneStr
                            ELSE keyword_categories[_find_keyword_category(keyword)].category)
    /\ UNCHANGED <<store, gen>>

\* One call of KeywordExtractor._get_keyword_category.
get_keyword_category(keyword) ==
    /\ response' = Response("_get_keyword_category", [keyword |-> keyword], 0, "ok",
                            NoneStr, _get_keyword_category(keyword))
    /\ UNCHANGED <<store, gen>>

\* Every term of either taxonomy, two terms in capitals and a term of
\* neither taxonomy.
TaxonomyKeywords ==
    UNION {SeqToSet(categories[c].keywords) : c \in 1..Len(categories)}
       \cup UNION {SeqToSet(keyword_categories[c].keywords) :
                      c \in 1..Len(keyword_categories)}
       \cup {"Fractal", "TESSELLATED", "unknown_keyword"}

InitTaxonomy ==
    InitCall({Call(op, [keyword |-> k]) :
                 op \in {"_find_keyword_category", "_get_keyword_category"},
                 k \in TaxonomyKeywords})

TaxEngineFind ==
    Called("_find_keyword_category") /\ find_keyword_category(response.args.keyword)

TaxExtractorGet ==
    Called("_get_keyword_category") /\ get_keyword_category(response.args.keyword)

NextTaxonomy == TaxEngineFind \/ TaxExtractorGet

SpecTaxonomy == InitTaxonomy /\ [][NextTaxonomy]_vars

\* C30: the Prompt Engine and the Keyword Extractor classify keywords
\* identically: for every keyword PromptEngine._find_keyword_category
\* returns the category the KeywordExtractor assigns, and None exactly when
\* the extractor reports uncategorized.
C30_SameClassification ==
    [][response'.op = "_find_keyword_category" =>
        LET assigned == _get_keyword_category(response'.args.keyword)
        IN /\ response'.data = NoneStr <=> assigned = "uncategorized"
           /\ response'.data # NoneStr => response'.data = assigned]_vars

=============================================================================
